---- MODULE Spec2Model ----
(***************************************************************************)
(* The village-boundary geometry pipeline of guamradar:                    *)
(*   frontend/src/lib/geo.ts   (builder without coastline clipping)        *)
(*   unnamed/part_000          (the same module with coastline clipping)   *)
(*                                                                         *)
(* Conventions of the model                                                *)
(*  - A JavaScript value of the untyped GeoJSON input is a record tagged   *)
(*    by its field t: undefined, null, number, string, array, object.      *)
(*  - A string is a sequence of characters; an ASCII character is the      *)
(*    one-character TLA+ string, any other character is named in ASCII     *)
(*    ("a_ring" is U+00E5, "rsquo" is U+2019, ...).                        *)
(*  - Coordinates are in hundredths of a degree, so that the reference     *)
(*    window 13.2..13.75 x 144.6..144.98 has integer corners; arithmetic   *)
(*    is exact (floating-point rounding is not modelled).                  *)
(*  - A throw is a result with ok = FALSE; it propagates as in the code.   *)
(***************************************************************************)
EXTENDS Integers, Sequences, FiniteSets, TLC

VARIABLES
    doc,      \* the parsed GeoJSON document handed to geoJsonToVillages
    pc,       \* "start" before the build, "done" after it
    builder,  \* which builder ran: "none", "plain" (lib/geo.ts), "clip" (part_000)
    coast,    \* coastlinePoly of the last build: the coastline reference, or null
    turf,     \* what @turf/intersect answered for each feature in this build
    res,      \* outcome of the build: [ok, villages]
    query,    \* the last point handed to findVillageForPoint: <<lat, lng>>
    found,    \* its answer: a village, or null
    snapshot, \* a Village list returned by an earlier build that a caller still
              \* holds, with the query made on it and the answer it got
    call,     \* the last direct call of a function of the module: [fn, arg]
    ret       \* what that call returned

\* The page (HomePage.tsx and its hooks) that loads the villages and selects one
VARIABLES
    villages,           \* useVillages: the Village list in React state
    userLoc,            \* useUserLocation: the last fix, or null
    userAcc,            \* useUserLocation: its accuracy, or null
    selectedVillageId,  \* drives the map camera and the highlight
    selected,           \* the selected place or event
    popupInfo,          \* the open info window
    filters,            \* category, search, openNow, nearMe
    deferredVillageId,  \* drives the sidebar filters and the village name
    deferTimeoutRef,    \* deferTimeoutRef.current: the id setTimeout returned
    timers,             \* the browser's pending timers: [id, arg]
    timerSeq,           \* the id the browser gave to its latest timer
    positions,          \* pending getCurrentPosition requests, each with the
                        \* villages its success callback closed over
    alerted,            \* the message of the last alert(), or null
    showVillages,       \* whether the village boundaries are shown
    map,                \* useMap(): TRUE once the map instance exists
    camera,             \* the map's centre and zoom: who moved it last, where to
    flyId,              \* _flyId, the id of the latest smoothFlyTo call
    frames,             \* pending requestAnimationFrame callbacks of smoothFlyTo
    hasInteracted,      \* FitVillageBounds: hasInteracted.current
    fitDeps,            \* the dependencies FitVillageBounds' effect last ran with
    dataLayer,          \* VillageOverlay: dataLayerRef.current, null or its features
    loadedVillagesRef,  \* VillageOverlay: loadedVillagesRef.current
    layerDeps,          \* the dependencies the data layer effect last ran with
    featDeps            \* the dependencies the features effect last ran with

page == <<villages, userLoc, userAcc, selectedVillageId, selected, popupInfo, filters,
          deferredVillageId, deferTimeoutRef, timers, timerSeq, positions, alerted,
          showVillages, map, camera, flyId, frames, hasInteracted, fitDeps,
          dataLayer, loadedVillagesRef, layerDeps, featDeps>>

built == <<doc, pc, builder, coast, turf, res, query, found, snapshot, call, ret>>

vars == <<doc, pc, builder, coast, turf, res, query, found, snapshot, call, ret,
          villages, userLoc, userAcc, selectedVillageId, selected, popupInfo, filters,
          deferredVillageId, deferTimeoutRef, timers, timerSeq, positions, alerted,
          showVillages, map, camera, flyId, frames, hasInteracted, fitDeps,
          dataLayer, loadedVillagesRef, layerDeps, featDeps>>

-----------------------------------------------------------------------------
(* JavaScript values *)

Undef == [t |-> "undefined"]
Null == [t |-> "null"]
Num(n) == [t |-> "number", v |-> n]
Str(s) == [t |-> "string", v |-> s]
Arr(xs) == [t |-> "array", v |-> xs]
Obj(r) == [t |-> "object", v |-> r]

\* x == null || x === undefined
Nullish(x) == x.t \in {"undefined", "null"}

\* ToBoolean(x), as used by !x and by if (x)
Truthy(x) ==
    CASE x.t \in {"undefined", "null"} -> FALSE
      [] x.t = "number" -> x.v # 0
      [] x.t = "string" -> Len(x.v) > 0
      [] OTHER -> TRUE

\* x.k for a non-nullish x
Get(x, k) ==
    CASE x.t = "object" -> IF k \in DOMAIN x.v THEN x.v[k] ELSE Undef
      [] x.t \in {"string", "array"} /\ k = "length" -> Num(Len(x.v))
      [] OTHER -> Undef

\* x?.k
OptGet(x, k) == IF Nullish(x) THEN Undef ELSE Get(x, k)

\* x[i] for a non-nullish x (i counted from 0)
Index(x, i) ==
    CASE x.t = "array" /\ i < Len(x.v) -> x.v[i + 1]
      [] x.t = "string" /\ i < Len(x.v) -> Str(<<x.v[i + 1]>>)
      [] OTHER -> Undef

\* x?.[i]
OptIndex(x, i) == IF Nullish(x) THEN Undef ELSE Index(x, i)

\* x ?? d
Coalesce(x, d) == IF Nullish(x) THEN d ELSE x

\* for (const e of x) and destructuring accept arrays and strings only
Iterable(x) == x.t \in {"array", "string"}

\* x.map is a function only for arrays
HasMap(x) == x.t = "array"

\* x.replace is a function only for strings
HasReplace(x) == x.t = "string"

\* the elements for (const e of x) visits
Elements(x) ==
    IF x.t = "array" THEN x.v ELSE [i \in 1..Len(x.v) |-> Str(<<x.v[i]>>)]

-----------------------------------------------------------------------------
(* Characters and strings *)

UpperChars ==
    <<"A", "B", "C", "D", "E", "F", "G", "H", "I", "J", "K", "L", "M",
      "N", "O", "P", "Q", "R", "S", "T", "U", "V", "W", "X", "Y", "Z",
      "A_ring", "A_acute", "N_tilde">>

LowerChars ==
    <<"a", "b", "c", "d", "e", "f", "g", "h", "i", "j", "k", "l", "m",
      "n", "o", "p", "q", "r", "s", "t", "u", "v", "w", "x", "y", "z",
      "a_ring", "a_acute", "n_tilde">>

\* String.prototype.toLowerCase on one character
ToLowerChar(c) ==
    IF \E i \in 1..Len(UpperChars) : UpperChars[i] = c
    THEN LowerChars[CHOOSE i \in 1..Len(UpperChars) : UpperChars[i] = c]
    ELSE c

\* \w of a regular expression without the u flag: [A-Za-z0-9_]
AsciiLetters ==
    {UpperChars[i] : i \in 1..26} \cup {LowerChars[i] : i \in 1..26}

WordChar(c) ==
    c \in AsciiLetters \cup {"0", "1", "2", "3", "4", "5", "6", "7", "8", "9", "_"}

\* \s of a regular expression (the white space that names of the model hold)
SpaceChar(c) == c \in {" ", "tab"}

Municipality == <<"m", "u", "n", "i", "c", "i", "p", "a", "l", "i", "t", "y">>

\* Variant: the match is case-sensitive (no i flag)
MunicipalityAtExactCase(s, i) ==
    /\ i + Len(Municipality) - 1 <= Len(s)
    /\ s[i] = "M"
    /\ \A k \in 2..Len(Municipality) : s[i + k - 1] = Municipality[k]
    /\ (i = 1 \/ ~WordChar(s[i - 1]))
    /\ (i + Len(Municipality) > Len(s) \/ ~WordChar(s[i + Len(Municipality)]))

\* /\bMunicipality\b/i matches s at position i
MunicipalityAt(s, i) ==
    /\ i + Len(Municipality) - 1 <= Len(s)
    /\ \A k \in 1..Len(Municipality) : ToLowerChar(s[i + k - 1]) = Municipality[k]
    /\ (i = 1 \/ ~WordChar(s[i - 1]))
    /\ (i + Len(Municipality) > Len(s) \/ ~WordChar(s[i + Len(Municipality)]))

RECURSIVE StripFrom(_, _)
StripFrom(s, i) ==
    IF i > Len(s) THEN <<>>
    ELSE IF MunicipalityAt(s, i) THEN StripFrom(s, i + Len(Municipality))
    ELSE <<s[i]>> \o StripFrom(s, i + 1)

\* s.replace(/\bMunicipality\b/gi, "")
StripMunicipality(s) == StripFrom(s, 1)

RECURSIVE DropChars(_, _)
DropChars(s, drop) ==
    IF s = <<>> THEN <<>>
    ELSE (IF Head(s) \in drop THEN <<>> ELSE <<Head(s)>>) \o DropChars(Tail(s), drop)

\* the class ['']: both characters of the source are U+0027
Apostrophes == {"'"}

\* the six folding replacements of normalizeVillageId, on one character
FoldChar(c) ==
    CASE c \in {"a_ring", "A_ring"} -> "a"
      [] c \in {"a_acute", "a_grave", "a_circ", "a_uml"} -> "a"
      [] c \in {"e_acute", "e_grave", "e_circ", "e_uml"} -> "e"
      [] c \in {"i_acute", "i_grave", "i_circ", "i_uml"} -> "i"
      [] c \in {"o_acute", "o_grave", "o_circ", "o_uml"} -> "o"
      [] c \in {"u_acute", "u_grave", "u_circ", "u_uml"} -> "u"
      [] OTHER -> c

RECURSIVE TrimStart(_)
TrimStart(s) ==
    IF s # <<>> /\ SpaceChar(Head(s)) THEN TrimStart(Tail(s)) ELSE s

RECURSIVE TrimEnd(_)
TrimEnd(s) ==
    IF s # <<>> /\ SpaceChar(s[Len(s)]) THEN TrimEnd(SubSeq(s, 1, Len(s) - 1)) ELSE s

\* String.prototype.trim
Trim(s) == TrimEnd(TrimStart(s))

\* String.prototype.toLowerCase
ToLowerCase(s) == [i \in 1..Len(s) |-> ToLowerChar(s[i])]

RECURSIVE HyphenateFrom(_, _)
HyphenateFrom(s, i) ==
    IF i > Len(s) THEN <<>>
    ELSE IF SpaceChar(s[i])
         THEN (IF i > 1 /\ SpaceChar(s[i - 1]) THEN <<>> ELSE <<"-">>)
              \o HyphenateFrom(s, i + 1)
         ELSE <<s[i]>> \o HyphenateFrom(s, i + 1)

\* s.replace(/\s+/g, "-")
Hyphenate(s) == HyphenateFrom(s, 1)

NameGuam == <<"G", "u", "a", "m">>
NameUnitedStates == <<"U", "n", "i", "t", "e", "d", " ", "S", "t", "a", "t", "e", "s">>
NameAganaHeights == <<"A", "g", "a", "n", "a", " ", "H", "e", "i", "g", "h", "t", "s">>
NameAganaHeightsFixed == <<"A", "g", "a", "n_tilde", "a", " ", "H", "e", "i", "g", "h", "t", "s">>
NameAsan == <<"A", "s", "a", "n">>
NameAsanMaina == <<"A", "s", "a", "n", "-", "M", "a", "i", "n", "a">>
NameTamuning == <<"T", "a", "m", "u", "n", "i", "n", "g">>
NameTamuningTumonHarmon ==
    <<"T", "a", "m", "u", "n", "i", "n", "g", "-", "T", "u", "m", "o", "n", "-",
      "H", "a", "r", "m", "o", "n">>

\* VILLAGE_NAME_FIXES is an object literal: reading a property that is not one
\* of its three keys finds the properties it inherits from Object.prototype
\* ("constructor", "toString", ...), whose values are functions, not strings
NameConstructor == <<"c", "o", "n", "s", "t", "r", "u", "c", "t", "o", "r">>
NameToString == <<"t", "o", "S", "t", "r", "i", "n", "g">>
ObjectPrototypeKeys == {NameConstructor, NameToString}

\* stands for a value that is a function: it is no sequence of characters
InheritedFunction == <<"Function">>

\* VILLAGE_NAME_FIXES[stripped] ?? stripped
VILLAGE_NAME_FIXES(stripped) ==
    CASE stripped = NameAganaHeights -> NameAganaHeightsFixed
      [] stripped = NameAsan -> NameAsanMaina
      [] stripped = NameTamuning -> NameTamuningTumonHarmon
      [] stripped \in ObjectPrototypeKeys -> InheritedFunction
      [] OTHER -> stripped

\* rawName.replace(/\bMunicipality\b/gi, "").trim(), then the corrections table
cleanName(rawName) == VILLAGE_NAME_FIXES(Trim(StripMunicipality(rawName)))

\* Variant: the id is derived from the corrected display name
normalizeVillageIdOfDisplay(name) ==
    LET stripped == DropChars(StripMunicipality(cleanName(name)), Apostrophes)
        folded == [i \in 1..Len(stripped) |-> FoldChar(stripped[i])]
    IN Hyphenate(ToLowerCase(Trim(folded)))

normalizeVillageId(name) ==
    LET stripped == DropChars(StripMunicipality(name), Apostrophes)
        folded == [i \in 1..Len(stripped) |-> FoldChar(stripped[i])]
    IN Hyphenate(ToLowerCase(Trim(folded)))

-----------------------------------------------------------------------------
(* Ring geometry: a ring is a sequence of <<lng, lat>> pairs *)

\* stands for the JavaScript Infinity: larger than every coordinate of the model
Infinity == 1000000

Max(a, b) == IF a > b THEN a ELSE b
Min(a, b) == IF a < b THEN a ELSE b

RECURSIVE BBoxScan(_, _, _)
BBoxScan(ring, i, bb) ==
    IF i > Len(ring) THEN bb
    ELSE BBoxScan(ring, i + 1,
            [minLat |-> IF ring[i][2] < bb.minLat THEN ring[i][2] ELSE bb.minLat,
             minLng |-> IF ring[i][1] < bb.minLng THEN ring[i][1] ELSE bb.minLng,
             maxLat |-> IF ring[i][2] > bb.maxLat THEN ring[i][2] ELSE bb.maxLat,
             maxLng |-> IF ring[i][1] > bb.maxLng THEN ring[i][1] ELSE bb.maxLng])

ringBBox(ring) ==
    BBoxScan(ring, 1,
        [minLat |-> Infinity, minLng |-> Infinity,
         maxLat |-> -Infinity, maxLng |-> -Infinity])

\* Variant: the product of the extents, without the test that both are positive
bboxIntersectionAreaProduct(a, b) ==
    LET x1 == Max(a.minLng, b.minLng)
        y1 == Max(a.minLat, b.minLat)
        x2 == Min(a.maxLng, b.maxLng)
        y2 == Min(a.maxLat, b.maxLat)
        w == x2 - x1
        h == y2 - y1
    IN IF w = 0 \/ h = 0 THEN 0 ELSE w * h

bboxIntersectionArea(a, b) ==
    LET x1 == Max(a.minLng, b.minLng)
        y1 == Max(a.minLat, b.minLat)
        x2 == Min(a.maxLng, b.maxLng)
        y2 == Min(a.maxLat, b.maxLat)
        w == x2 - x1
        h == y2 - y1
    IN IF w > 0 /\ h > 0 THEN w * h ELSE 0

bboxArea(bb) == Max(0, bb.maxLng - bb.minLng) * Max(0, bb.maxLat - bb.minLat)

\* { minLat: 13.2, maxLat: 13.75, minLng: 144.6, maxLng: 144.98 } in hundredths
GUAM_MAIN_BB == [minLat |-> 1320, maxLat |-> 1375, minLng |-> 14460, maxLng |-> 14498]

\* Variant: first and last vertex are compared by their longitude only
ensureClosedByLng(ring) ==
    IF Len(ring) < 2 THEN ring
    ELSE IF ring[1][1] # ring[Len(ring)][1]
         THEN Append(ring, ring[1])
         ELSE ring

ensureClosed(ring) ==
    IF Len(ring) < 2 THEN ring
    ELSE IF ring[1][1] # ring[Len(ring)][1] \/ ring[1][2] # ring[Len(ring)][2]
         THEN Append(ring, ring[1])
         ELSE ring

\* the test of one edge (i, j) of pointInRing; the division is exact
EdgeCrosses(lat, lng, pi, pj) ==
    LET yi == pi[2]
        xi == pi[1]
        yj == pj[2]
        xj == pj[1]
    IN /\ (yi > lat) # (yj > lat)
       /\ IF yj - yi > 0
          THEN (lng - xi) * (yj - yi) < (xj - xi) * (lat - yi)
          ELSE (lng - xi) * (yj - yi) > (xj - xi) * (lat - yi)

\* Variant: one crossing edge is enough, the crossings are not counted
RECURSIVE RayScanAny(_, _, _, _, _)
RayScanAny(lat, lng, ring, i, inside) ==
    IF i > Len(ring) THEN inside
    ELSE RayScanAny(lat, lng, ring, i + 1,
            inside \/ EdgeCrosses(lat, lng, ring[i], ring[IF i = 1 THEN Len(ring) ELSE i - 1]))

RECURSIVE RayScan(_, _, _, _, _)
RayScan(lat, lng, ring, i, inside) ==
    IF i > Len(ring) THEN inside
    ELSE RayScan(lat, lng, ring, i + 1,
            IF EdgeCrosses(lat, lng, ring[i], ring[IF i = 1 THEN Len(ring) ELSE i - 1])
            THEN ~inside ELSE inside)

\* Variant: the edge from the last vertex back to the first is not tested, so
\* only a ring that repeats its first vertex is scanned all around
pointInRingOpen(lat, lng, ring) ==
    IF Len(ring) = 0 THEN FALSE
    ELSE RayScan(lat, lng, ring, 2, FALSE)

pointInRing(lat, lng, ring) == RayScan(lat, lng, ring, 1, FALSE)

\* Variant: the scan goes on after a match, so the last containing village wins
RECURSIVE LocateScanLast(_, _, _, _)
LocateScanLast(list, lat, lng, i) ==
    IF i > Len(list) THEN Null
    ELSE LET later == LocateScanLast(list, lat, lng, i + 1)
         IN IF later.t = "village" THEN later
            ELSE IF pointInRing(lat, lng, list[i].polygon)
                 THEN [t |-> "village", v |-> list[i]]
                 ELSE Null

RECURSIVE LocateScan(_, _, _, _)
LocateScan(list, lat, lng, i) ==
    IF i > Len(list) THEN Null
    ELSE IF pointInRing(lat, lng, list[i].polygon)
         THEN [t |-> "village", v |-> list[i]]
         ELSE LocateScan(list, lat, lng, i + 1)

findVillageForPoint(list, lat, lng) == LocateScan(list, lat, lng, 1)

-----------------------------------------------------------------------------
(* Fragment selection: the scan of geoJsonToVillages over candidateRings *)

\* Variant: own area is compared first, overlap second
RECURSIVE SelectScanAreaFirst(_, _, _)
SelectScanAreaFirst(rings, i, st) ==
    IF i > Len(rings) THEN st
    ELSE LET bb == ringBBox(rings[i])
             overlap == bboxIntersectionArea(bb, GUAM_MAIN_BB)
             area == bboxArea(bb)
         IN SelectScanAreaFirst(rings, i + 1,
                IF area > st.bestArea
                   \/ (area = st.bestArea /\ overlap > st.bestOverlap)
                THEN [best |-> rings[i], bestOverlap |-> overlap, bestArea |-> area]
                ELSE st)

\* Variant: >= in place of > on the area, so the last of equal candidates wins
RECURSIVE SelectScanLastWins(_, _, _)
SelectScanLastWins(rings, i, st) ==
    IF i > Len(rings) THEN st
    ELSE LET bb == ringBBox(rings[i])
             overlap == bboxIntersectionArea(bb, GUAM_MAIN_BB)
             area == bboxArea(bb)
         IN SelectScanLastWins(rings, i + 1,
                IF overlap > st.bestOverlap
                   \/ (overlap = st.bestOverlap /\ area >= st.bestArea)
                THEN [best |-> rings[i], bestOverlap |-> overlap, bestArea |-> area]
                ELSE st)

\* Variant: the tie-break depends on the run: a later run lets the last of equal
\* candidates win
RECURSIVE SelectScanRunDependent(_, _, _)
SelectScanRunDependent(rings, i, st) ==
    IF i > Len(rings) THEN st
    ELSE LET bb == ringBBox(rings[i])
             overlap == bboxIntersectionArea(bb, GUAM_MAIN_BB)
             area == bboxArea(bb)
         IN SelectScanRunDependent(rings, i + 1,
                IF overlap > st.bestOverlap
                   \/ (overlap = st.bestOverlap /\ area > st.bestArea)
                   \/ (pc # "start" /\ overlap = st.bestOverlap /\ area = st.bestArea)
                THEN [best |-> rings[i], bestOverlap |-> overlap, bestArea |-> area]
                ELSE st)

RECURSIVE SelectScan(_, _, _)
SelectScan(rings, i, st) ==
    IF i > Len(rings) THEN st
    ELSE LET bb == ringBBox(rings[i])
             overlap == bboxIntersectionArea(bb, GUAM_MAIN_BB)
             area == bboxArea(bb)
         IN SelectScan(rings, i + 1,
                IF overlap > st.bestOverlap
                   \/ (overlap = st.bestOverlap /\ area > st.bestArea)
                THEN [best |-> rings[i], bestOverlap |-> overlap, bestArea |-> area]
                ELSE st)

\* let best = candidateRings[0]; bestOverlap = -1; bestArea = -1; for (...) {...}
SelectBest(candidateRings) ==
    SelectScan(candidateRings, 1,
        [best |-> candidateRings[1], bestOverlap |-> -1, bestArea |-> -1]).best

-----------------------------------------------------------------------------
(* Results: a value, or a throw (a TypeError or a library error) *)

Ok(x) == [ok |-> TRUE, v |-> x]
Throw == [ok |-> FALSE]

TypePolygon == <<"P", "o", "l", "y", "g", "o", "n">>
TypeMultiPolygon == <<"M", "u", "l", "t", "i", "P", "o", "l", "y", "g", "o", "n">>

\* coords.map(([lng, lat]) => [lng, lat]): throws when coords has no map method
\* or an element cannot be destructured; the coordinates read are numbers
toRingGeoJson(coords) ==
    IF ~HasMap(coords) \/ \E i \in 1..Len(coords.v) : ~Iterable(coords.v[i])
    THEN Throw
    ELSE Ok([i \in 1..Len(coords.v) |->
                <<Index(coords.v[i], 0).v, Index(coords.v[i], 1).v>>])

\* const outer = x?.[0]; if (outer?.length) candidateRings.push(toRingGeoJson(outer))
\* the rings pushed (none or one), or a throw
PushOuter(x) ==
    LET outer == OptIndex(x, 0)
        ring == toRingGeoJson(outer)
    IN IF Truthy(OptGet(outer, "length"))
       THEN (IF ring.ok THEN Ok(<<ring.v>>) ELSE Throw)
       ELSE Ok(<<>>)

RECURSIVE PushAll(_, _)
PushAll(polys, i) ==
    IF i > Len(polys) THEN Ok(<<>>)
    ELSE LET first == PushOuter(polys[i])
             rest == PushAll(polys, i + 1)
         IN IF first.ok /\ rest.ok THEN Ok(first.v \o rest.v) ELSE Throw

\* candidateRings of a truthy geom: skip is the else branch (return null)
CandidateRings(geom) ==
    IF Get(geom, "type") = Str(TypePolygon)
    THEN [skip |-> FALSE, rings |-> PushOuter(Get(geom, "coordinates"))]
    ELSE IF Get(geom, "type") = Str(TypeMultiPolygon)
    THEN [skip |-> FALSE,
          rings |-> IF ~Iterable(Coalesce(Get(geom, "coordinates"), Arr(<<>>)))
                    THEN Throw
                    ELSE PushAll(Elements(Coalesce(Get(geom, "coordinates"), Arr(<<>>))), 1)]
    ELSE [skip |-> TRUE, rings |-> Ok(<<>>)]

\* Variant: the labels "Guam" and "United States" are not skipped
FeatureVillageKeepLabels(f) ==
    LET rawName == OptGet(OptGet(f, "properties"), "name")
        geom == OptGet(f, "geometry")
    IN IF ~Truthy(rawName) \/ ~Truthy(geom) THEN Ok(Null)
       ELSE IF ~HasReplace(rawName) THEN Throw
       ELSE LET cand == CandidateRings(geom)
            IN IF cand.skip THEN Ok(Null)
               ELSE IF ~cand.rings.ok THEN Throw
               ELSE IF Len(cand.rings.v) = 0 THEN Ok(Null)
               ELSE Ok([t |-> "village",
                        v |-> [id |-> normalizeVillageId(rawName.v),
                               name |-> cleanName(rawName.v),
                               polygon |-> SelectBest(cand.rings.v)]])

\* The callback of features.map up to the fragment selection: null, a Village
\* whose polygon is the selected ring, or a throw
FeatureVillage(f) ==
    LET rawName == OptGet(OptGet(f, "properties"), "name")
        geom == OptGet(f, "geometry")
    IN IF ~Truthy(rawName) \/ ~Truthy(geom) THEN Ok(Null)
       ELSE IF rawName = Str(NameGuam) \/ rawName = Str(NameUnitedStates) THEN Ok(Null)
       ELSE IF ~HasReplace(rawName) THEN Throw
       ELSE LET cand == CandidateRings(geom)
            IN IF cand.skip THEN Ok(Null)
               ELSE IF ~cand.rings.ok THEN Throw
               ELSE IF Len(cand.rings.v) = 0 THEN Ok(Null)
               ELSE Ok([t |-> "village",
                        v |-> [id |-> normalizeVillageId(rawName.v),
                               name |-> cleanName(rawName.v),
                               polygon |-> SelectBest(cand.rings.v)]])

\* Variant: a village whose id was already emitted is left out
RECURSIVE FilterBooleanDedup(_)
FilterBooleanDedup(xs) ==
    IF xs = <<>> THEN <<>>
    ELSE LET front == FilterBooleanDedup(SubSeq(xs, 1, Len(xs) - 1))
             last == xs[Len(xs)]
         IN IF Truthy(last) /\ \A k \in 1..Len(front) : front[k].id # last.v.id
            THEN Append(front, last.v)
            ELSE front

\* Variant: the output ends at the first feature that yields no village
RECURSIVE FilterBooleanUntilNull(_)
FilterBooleanUntilNull(xs) ==
    IF xs = <<>> \/ ~Truthy(Head(xs)) THEN <<>>
    ELSE <<Head(xs).v>> \o FilterBooleanUntilNull(Tail(xs))

RECURSIVE FilterBoolean(_)
FilterBoolean(xs) ==
    IF xs = <<>> THEN <<>>
    ELSE (IF Truthy(Head(xs)) THEN <<Head(xs).v>> ELSE <<>>) \o FilterBoolean(Tail(xs))

\* geo?.features ?? []
FeaturesOf(geo) == Coalesce(OptGet(geo, "features"), Arr(<<>>))

\* lib/geo.ts: features.map(...).filter(Boolean)
geoJsonToVillages(geo) ==
    LET features == FeaturesOf(geo)
    IN IF ~HasMap(features) THEN Throw
       ELSE LET mapped == [i \in 1..Len(features.v) |-> FeatureVillage(features.v[i])]
            IN IF \E i \in 1..Len(features.v) : ~mapped[i].ok THEN Throw
               ELSE Ok(FilterBoolean([i \in 1..Len(features.v) |-> mapped[i].v]))

-----------------------------------------------------------------------------
(* Coastline clipping (part_000) *)

\* polygon() of @turf/helpers accepts rings of 4 or more positions whose first
\* and last positions are equal, and throws otherwise
turfPolygon(rings) ==
    IF \A k \in 1..Len(rings) :
          Len(rings[k]) >= 4 /\ rings[k][1] = rings[k][Len(rings[k])]
    THEN Ok(rings)
    ELSE Throw

\* The answers of intersect() of @turf/intersect: null, a Polygon feature, a
\* MultiPolygon feature, or a throw
TurfNull == [kind |-> "null"]
TurfThrow == [kind |-> "throw"]
TurfPolygon(ring) == [kind |-> "Polygon", coordinates |-> <<ring>>]
TurfMultiPolygon(rings) ==
    [kind |-> "MultiPolygon", coordinates |-> [k \in 1..Len(rings) |-> <<rings[k]>>]]

\* Variant: the fallback returns the closed copy of the ring
clipToCoastlineClosed(villageRing, coastlinePoly, answer) ==
    IF ~turfPolygon(<<ensureClosed(villageRing)>>).ok THEN ensureClosed(villageRing)
    ELSE IF answer.kind = "throw" THEN ensureClosed(villageRing)
    ELSE IF answer.kind = "null" THEN ensureClosed(villageRing)
    ELSE IF answer.kind = "Polygon" THEN answer.coordinates[1]
    ELSE IF answer.kind = "MultiPolygon" /\ Len(answer.coordinates) > 0
    THEN SelectBest([k \in 1..Len(answer.coordinates) |-> answer.coordinates[k][1]])
    ELSE ensureClosed(villageRing)

\* Variant: of several pieces the first one is returned
clipToCoastlineFirstPiece(villageRing, coastlinePoly, answer) ==
    IF ~turfPolygon(<<ensureClosed(villageRing)>>).ok THEN villageRing
    ELSE IF answer.kind = "throw" THEN villageRing
    ELSE IF answer.kind = "null" THEN villageRing
    ELSE IF answer.kind = "Polygon" THEN answer.coordinates[1]
    ELSE IF answer.kind = "MultiPolygon" /\ Len(answer.coordinates) > 0
    THEN answer.coordinates[1][1]
    ELSE villageRing

\* clipToCoastline, given the answer of intersect for this call
clipToCoastline(villageRing, coastlinePoly, answer) ==
    IF ~turfPolygon(<<ensureClosed(villageRing)>>).ok THEN villageRing
    ELSE IF answer.kind = "throw" THEN villageRing
    ELSE IF answer.kind = "null" THEN villageRing
    ELSE IF answer.kind = "Polygon" THEN answer.coordinates[1]
    ELSE IF answer.kind = "MultiPolygon" /\ Len(answer.coordinates) > 0
    THEN SelectBest([k \in 1..Len(answer.coordinates) |-> answer.coordinates[k][1]])
    ELSE villageRing

\* Variant: no break, a later feature is tried when the first one is unusable
RECURSIVE CoastlineScanRetry(_, _)
CoastlineScanRetry(fs, i) ==
    IF i > Len(fs) THEN Null
    ELSE IF OptGet(OptGet(fs[i], "properties"), "name") = Str(NameGuam)
            /\ OptGet(OptGet(fs[i], "geometry"), "type") = Str(TypePolygon)
    THEN LET outerRing == OptIndex(Get(Get(fs[i], "geometry"), "coordinates"), 0)
         IN IF Truthy(OptGet(outerRing, "length"))
               /\ toRingGeoJson(outerRing).ok
               /\ turfPolygon(<<ensureClosed(toRingGeoJson(outerRing).v)>>).ok
            THEN [t |-> "polygon", v |-> <<ensureClosed(toRingGeoJson(outerRing).v)>>]
            ELSE CoastlineScanRetry(fs, i + 1)
    ELSE CoastlineScanRetry(fs, i + 1)

\* the scan for the coastline feature: coastlinePoly, or null
RECURSIVE CoastlineScan(_, _)
CoastlineScan(fs, i) ==
    IF i > Len(fs) THEN Null
    ELSE IF OptGet(OptGet(fs[i], "properties"), "name") = Str(NameGuam)
            /\ OptGet(OptGet(fs[i], "geometry"), "type") = Str(TypePolygon)
    THEN LET outerRing == OptIndex(Get(Get(fs[i], "geometry"), "coordinates"), 0)
         IN IF Truthy(OptGet(outerRing, "length"))
               /\ toRingGeoJson(outerRing).ok
               /\ turfPolygon(<<ensureClosed(toRingGeoJson(outerRing).v)>>).ok
            THEN [t |-> "polygon", v |-> <<ensureClosed(toRingGeoJson(outerRing).v)>>]
            ELSE Null
    ELSE CoastlineScan(fs, i + 1)

\* Variant: without a coastline the selected ring is closed before it is returned
FeatureVillageClippedClosing(f, coastlinePoly, answer) ==
    LET r == FeatureVillage(f)
    IN IF r.ok /\ Truthy(r.v)
       THEN Ok([t |-> "village",
                v |-> [id |-> r.v.v.id, name |-> r.v.v.name,
                       polygon |-> IF Truthy(coastlinePoly)
                                   THEN clipToCoastline(r.v.v.polygon, coastlinePoly, answer)
                                   ELSE ensureClosed(r.v.v.polygon)]])
       ELSE r

\* the callback of features.map in part_000
FeatureVillageClipped(f, coastlinePoly, answer) ==
    LET r == FeatureVillage(f)
    IN IF r.ok /\ Truthy(r.v) /\ Truthy(coastlinePoly)
       THEN Ok([t |-> "village",
                v |-> [id |-> r.v.v.id, name |-> r.v.v.name,
                       polygon |-> clipToCoastline(r.v.v.polygon, coastlinePoly, answer)]])
       ELSE r

\* part_000: answers[i] is what intersect answers when feature i is clipped
geoJsonToVillagesClipped(geo, answers) ==
    LET features == FeaturesOf(geo)
    IN IF ~Iterable(features) \/ ~HasMap(features) THEN Throw
       ELSE LET coastlinePoly == CoastlineScan(features.v, 1)
                mapped == [i \in 1..Len(features.v) |->
                              FeatureVillageClipped(features.v[i], coastlinePoly, answers[i])]
            IN IF \E i \in 1..Len(features.v) : ~mapped[i].ok THEN Throw
               ELSE Ok(FilterBoolean([i \in 1..Len(features.v) |-> mapped[i].v]))

-----------------------------------------------------------------------------
(* The inputs of the model *)

MaxFeatures == 3   \* features in a document
MaxRings == 3      \* candidate rings of the feature of a selection document
MaxWord == 2       \* characters of a generated raw name
MaxRingLen == 4    \* vertices of a ring handed to ensureClosed directly
MaxPieces == 3     \* pieces of an intersection that intersect answers with
MaxCoord == 3      \* largest coordinate of a bounding box handed to the area functions
MaxRequests == 2   \* getCurrentPosition requests pending at once
MaxTimers == 3     \* timers the page sets in one run
MaxFlights == 3    \* smoothFlyTo calls in one run
MaxFrames == 2     \* animation frames of one smoothFlyTo call before it must land

\* Rings, in hundredths of a degree. The reference window is
\* lng 14460..14498, lat 1320..1375.
Rect(x1, y1, x2, y2) == <<<<x1, y1>>, <<x1, y2>>, <<x2, y2>>, <<x2, y1>>>>

RingBig == Append(Rect(14440, 1330, 14490, 1370), <<14440, 1330>>)  \* overlap 1200 of area 2000
RingLarge == Rect(14445, 1335, 14492, 1368)     \* overlap 1056 of area 1551, not closed
RingIslet == Rect(14470, 1340, 14472, 1342)     \* overlap 4 of area 4
RingIslet2 == Rect(14480, 1340, 14482, 1342)    \* overlap 4 of area 4
RingTieSmall == Rect(14470, 1350, 14475, 1352)  \* overlap 10 of area 10
RingTieLarge == Rect(14440, 1350, 14465, 1352)  \* overlap 10 of area 50
RingFar == Rect(14600, 1500, 14602, 1502)       \* overlap 0 of area 4
RingFarBig == Rect(14600, 1500, 14610, 1510)    \* overlap 0 of area 100
RingCoast == Append(Rect(14462, 1325, 14495, 1372), <<14462, 1325>>)
RingShort == <<<<14462, 1325>>, <<14495, 1372>>>>
RingShort2 == <<<<14470, 1330>>, <<14480, 1340>>>>

\* pieces that intersect answers with: ClipA is RingLarge cut by RingCoast
ClipA == Append(Rect(14462, 1335, 14492, 1368), <<14462, 1335>>)
ClipB == Append(Rect(14462, 1340, 14464, 1342), <<14462, 1340>>)

SelectRings ==
    {RingBig, RingIslet, RingIslet2, RingTieSmall, RingTieLarge, RingFar, RingFarBig}

TurfAnswers ==
    {TurfNull, TurfThrow, TurfPolygon(ClipA), TurfMultiPolygon(<<ClipB, ClipA>>)}

\* intersect is not called for this feature
TurfNone == [kind |-> "none"]

NameYona == <<"Y", "o", "n", "a">>
NameYonaMunicipality ==
    <<"Y", "o", "n", "a", " ", "M", "u", "n", "i", "c", "i", "p", "a", "l", "i", "t", "y">>
TypePoint == <<"P", "o", "i", "n", "t">>

\* the GeoJSON encoding of a ring, a geometry, a feature, a document
JsRing(ring) == Arr([i \in 1..Len(ring) |-> Arr(<<Num(ring[i][1]), Num(ring[i][2])>>)])
Geometry(type, coordinates) == Obj([type |-> Str(type), coordinates |-> coordinates])
Polygon(ring) == Geometry(TypePolygon, Arr(<<JsRing(ring)>>))
MultiPolygon(rings) ==
    Geometry(TypeMultiPolygon, Arr([k \in 1..Len(rings) |-> Arr(<<JsRing(rings[k])>>)]))
Feature(name, geometry) ==
    Obj([properties |-> Obj([name |-> name]), geometry |-> geometry])
FeatureCollection(features) == Obj([features |-> Arr(features)])

FYona == Feature(Str(NameYona), Polygon(RingBig))
FYonaMunicipality == Feature(Str(NameYonaMunicipality), Polygon(RingIslet))
FTamuning == Feature(Str(NameTamuning), MultiPolygon(<<RingFar, RingLarge>>))
FAsanShort == Feature(Str(NameAsan), Polygon(RingShort2))
FGuam == Feature(Str(NameGuam), Polygon(RingCoast))
FGuamEmpty == Feature(Str(NameGuam), Geometry(TypePolygon, Arr(<<Arr(<<>>)>>)))
FGuamShort == Feature(Str(NameGuam), Polygon(RingShort))
FUnitedStates == Feature(Str(NameUnitedStates), Polygon(RingFarBig))
FNull == Null
FNoName == Obj([geometry |-> Polygon(RingIslet)])
FNoGeometry == Feature(Str(NameYona), Undef)
FPoint == Feature(Str(NameYona), Geometry(TypePoint, Arr(<<Num(14470), Num(1340)>>)))
FEmptyRing == Feature(Str(NameAsan), Geometry(TypePolygon, Arr(<<Arr(<<>>)>>)))
FNumberName == Feature(Num(5), Geometry(TypePoint, Arr(<<Num(14470), Num(1340)>>)))
FNumberCoordinates == Feature(Str(NameAsan), Geometry(TypeMultiPolygon, Num(5)))
FNullPosition == Feature(Str(NameAsan), Geometry(TypePolygon, Arr(<<Arr(<<Null>>)>>)))

\* features of the documents of Spec: villages, features to drop, ill-typed features
FeaturePool ==
    {FYona, FYonaMunicipality, FNull, FNoName, FNoGeometry, FPoint, FEmptyRing,
     FNumberName, FNumberCoordinates, FNullPosition}

\* features of the documents of SpecCoast: coastline features, labels, villages
CoastPool ==
    {FGuam, FGuamEmpty, FGuamShort, FUnitedStates, FTamuning, FAsanShort, FNoGeometry,
     FNumberName}

SeqsUpTo(S, n) == UNION {[1..k -> S] : k \in 0..n}

\* documents whose feature list is not a list, or is absent
OddDocuments ==
    {Null, Undef, Obj([type |-> Str(<<"x">>)]), Obj([features |-> Null]),
     Obj([features |-> Num(5)]), Obj([features |-> Str(<<"a", "b">>)]),
     Obj([features |-> Obj([length |-> Num(1)])])}

Documents ==
    {FeatureCollection(fs) : fs \in SeqsUpTo(FeaturePool, MaxFeatures)} \cup OddDocuments

CoastDocuments ==
    {FeatureCollection(fs) : fs \in SeqsUpTo(CoastPool, MaxFeatures)}

\* a feature whose two fragments tie on overlap and on own area
FTie == Feature(Str(NameAsan), MultiPolygon(<<RingIslet, RingIslet2>>))

\* documents that are built twice: ties, a coastline, clipped villages
RerunPool == {FTie, FGuam, FTamuning}

RerunDocuments ==
    {FeatureCollection(fs) : fs \in SeqsUpTo(RerunPool, MaxFeatures)}

\* documents of the runs in which a second document is loaded
ReloadDocuments ==
    {FeatureCollection(<<>>), FeatureCollection(<<FYona>>),
     FeatureCollection(<<FYonaMunicipality, FYona>>),
     FeatureCollection(<<FGuam, FTamuning>>)}

\* Raw names: the names of the corrections table and their neighbours, and
\* every word of 1..MaxWord characters over NameChars
NameChars == {"a", "N", "a_acute", "A_acute", "A_ring", "'", "rsquo", " "}

NameAsanLower == <<"a", "s", "a", "n">>

FixedNames ==
    {NameAsan, NameAsanLower, <<" ">> \o NameAsan, NameAsanMaina, NameYona,
     NameTamuning, NameAganaHeights, NameConstructor}

Words == (SeqsUpTo(NameChars, MaxWord) \ {<<>>}) \cup FixedNames

\* the word "municipality" with the letters at the positions of mask in upper case
MunicipalityCased(mask) ==
    [k \in 1..Len(Municipality) |->
        IF k \in mask
        THEN UpperChars[CHOOSE i \in 1..26 : LowerChars[i] = Municipality[k]]
        ELSE Municipality[k]]

MunicipalityWords ==
    {MunicipalityCased(mask) : mask \in {{}, {1}, 1..12, {2, 5, 12}}}

\* documents of two features: a raw name, and the same name followed by a
\* space and the word Municipality in some letter case
NameDocuments ==
    {FeatureCollection(<<Feature(Str(w), Polygon(RingBig)),
                         Feature(Str(w \o <<" ">> \o m), Polygon(RingBig))>>) :
        w \in Words, m \in MunicipalityWords}

\* Rectangles with integer corners, from every starting vertex, in both
\* windings, open and closed
RectSides == {3, 10}
RectOrigins == {<<0, 0>>}

Rotate(ring, k) == [i \in 1..Len(ring) |-> ring[((i + k - 1) % Len(ring)) + 1]]
Reverse(ring) == [i \in 1..Len(ring) |-> ring[Len(ring) + 1 - i]]

RectRings ==
    LET base == {Rect(o[1], o[2], o[1] + w, o[2] + h) :
                    o \in RectOrigins, w \in RectSides, h \in RectSides}
        turned == {Rotate(r, k) : r \in base, k \in 0..3}
        open == turned \cup {Reverse(r) : r \in turned}
    IN open \cup {Append(r, r[1]) : r \in open}

RingDocuments ==
    {FeatureCollection(<<Feature(Str(NameYona), Polygon(ring))>>) : ring \in RectRings}

\* <<lat, lng>> on a grid around the rectangles
GridValues == {-1, 0, 2, 3, 5, 10, 11, 20}
GridPoints == GridValues \X GridValues

\* rings of 0..MaxRingLen vertices over three points, two of which share the
\* longitude and two the latitude
ClosePoints == {<<0, 0>>, <<0, 1>>, <<1, 0>>}
CloseRings == SeqsUpTo(ClosePoints, MaxRingLen)

\* Outer rings of the pieces of an intersection: closed rings that tie on the
\* overlap, on the overlap and the area, or on neither
PieceRings ==
    {Append(r, r[1]) : r \in {RingIslet, RingIslet2, RingTieSmall, RingTieLarge, RingFar}}
        \cup {ClipA}

\* intersect answers with one polygon, or with 2..MaxPieces pieces in any order
PieceAnswers ==
    {TurfPolygon(r) : r \in PieceRings}
        \cup {TurfMultiPolygon(rs) : rs \in SeqsUpTo(PieceRings, MaxPieces) \ SeqsUpTo(PieceRings, 1)}

\* documents with a coastline and one village to clip
PieceDocuments ==
    {FeatureCollection(<<FGuam, FTamuning>>), FeatureCollection(<<FTamuning, FGuam>>)}

\* Bounding boxes with corners in 0..MaxCoord, inverted and flat ones included,
\* and the box of the empty ring
Boxes ==
    {[minLat |-> y1, maxLat |-> y2, minLng |-> x1, maxLng |-> x2] :
        x1 \in 0..MaxCoord, x2 \in 0..MaxCoord, y1 \in 0..MaxCoord, y2 \in 0..MaxCoord}
        \cup {ringBBox(<<>>)}

\* the second argument of bboxIntersectionArea: a window, a flat box, an
\* inverted box
Windows ==
    {[minLat |-> 1, maxLat |-> 3, minLng |-> 1, maxLng |-> 2],
     [minLat |-> 0, maxLat |-> 2, minLng |-> 2, maxLng |-> 2],
     [minLat |-> 2, maxLat |-> 0, minLng |-> 3, maxLng |-> 1]}

\* rings over the corners of a square, open and closed, with repeated corners
ContainCorners == {<<0, 0>>, <<4, 0>>, <<4, 4>>, <<0, 4>>}
ContainRings == SeqsUpTo(ContainCorners, MaxRingLen)
\* points <<lat, lng>> inside, outside, on a diagonal, on an edge, on a corner
ContainPoints == {<<1, 2>>, <<2, 1>>, <<3, 1>>, <<2, 2>>, <<5, 1>>, <<2, 0>>, <<0, 0>>}

\* documents the page loads: two villages, one village and a null feature, none
PageDocuments ==
    {FeatureCollection(<<FYona, FTamuning>>), FeatureCollection(<<FYona, FNull>>),
     FeatureCollection(<<>>)}
\* fixes <<lat, lng>>: in Yona (and Tamuning), in Tamuning only, in no village
FixPoints == {<<1341, 14471>>, <<1340, 14491>>, <<1400, 14400>>}
\* pos.coords.accuracy in metres: at the threshold, past it, not a number
FixAccuracies == {Num(1500), Num(1501), Undef}

SelectDocuments ==
    {FeatureCollection(<<Feature(Str(NameYona), MultiPolygon(rings))>>) :
        rings \in SeqsUpTo(SelectRings, MaxRings) \ {<<>>}}

\* <<lat, lng>>: in RingIslet and RingBig; in RingBig only; in no ring
QueryPoints == {<<1341, 14471>>, <<1360, 14450>>, <<1400, 14400>>}

NoQuery == [t |-> "none"]

NoSnapshot == [t |-> "none"]

NoCall == [fn |-> "none"]

-----------------------------------------------------------------------------
(* The state machine: a document is loaded, one of the two builders runs on
   it, and the locator is queried on the villages built *)

\* the filters of a fresh page, to which reset() returns
DefaultFilters == [category |-> "ALL", search |-> "", openNow |-> FALSE, nearMe |-> FALSE]

\* no camera position yet: map.getCenter() or map.getZoom() gives undefined
NoCamera == [by |-> 0, to |-> Undef, step |-> 0, landed |-> FALSE]

\* the page after its first render: the useState and useRef initial values, and
\* every effect has run once, without a map and without villages
InitPage ==
    /\ villages = <<>>
    /\ userLoc = Null
    /\ userAcc = Null
    /\ selectedVillageId = Null
    /\ selected = Null
    /\ popupInfo = Null
    /\ filters = DefaultFilters
    /\ deferredVillageId = Null
    /\ deferTimeoutRef = Undef
    /\ timers = {}
    /\ timerSeq = 0
    /\ positions = <<>>
    /\ alerted = Null
    /\ showVillages = TRUE
    /\ map = FALSE
    /\ camera = NoCamera
    /\ flyId = 0
    /\ frames = {}
    /\ hasInteracted = FALSE
    /\ fitDeps = <<FALSE, Null, <<"start", <<>>>>>>
    /\ dataLayer = Null
    /\ loadedVillagesRef = <<>>
    /\ layerDeps = FALSE
    /\ featDeps = <<<<"start", <<>>>>, TRUE>>

InitRest ==
    /\ pc = "start"
    /\ builder = "none"
    /\ coast = Null
    /\ turf = <<>>
    /\ res = Ok(<<>>)
    /\ query = NoQuery
    /\ found = Null
    /\ snapshot = NoSnapshot
    /\ call = NoCall
    /\ ret = Null
    /\ InitPage

Init == doc \in Documents /\ InitRest

InitCoast == doc \in CoastDocuments /\ InitRest

InitSelect == doc \in SelectDocuments /\ InitRest

\* Variant: the builder fills one list shared by all its results, so a list
\* returned earlier shows the villages of the latest build
BuildSharedList ==
    /\ pc = "start"
    /\ res' = geoJsonToVillages(doc)
    /\ snapshot' = IF snapshot.t = "held" /\ res'.ok
                   THEN [snapshot EXCEPT !.villages = res'.v]
                   ELSE snapshot
    /\ builder' = "plain"
    /\ coast' = Null
    /\ turf' = <<>>
    /\ pc' = "done"
    /\ UNCHANGED <<doc, query, found, call, ret>>
    /\ UNCHANGED page

\* lib/geo.ts geoJsonToVillages(doc)
Build ==
    /\ pc = "start"
    /\ res' = geoJsonToVillages(doc)
    /\ builder' = "plain"
    /\ coast' = Null
    /\ turf' = <<>>
    /\ pc' = "done"
    /\ UNCHANGED <<doc, query, found, snapshot, call, ret>>
    /\ UNCHANGED page

\* intersect is called for feature f when a coastline exists, the feature yields
\* a village and the polygon of its closed ring can be constructed
IntersectCalled(f, coastlinePoly) ==
    LET r == FeatureVillage(f)
    IN /\ Truthy(coastlinePoly)
       /\ r.ok
       /\ Truthy(r.v)
       /\ turfPolygon(<<ensureClosed(r.v.v.polygon)>>).ok

RECURSIVE AnswerSeqs(_, _, _)
AnswerSeqs(fs, coastlinePoly, i) ==
    IF i > Len(fs) THEN {<<>>}
    ELSE {<<a>> \o rest :
            a \in (IF IntersectCalled(fs[i], coastlinePoly) THEN TurfAnswers ELSE {TurfNone}),
            rest \in AnswerSeqs(fs, coastlinePoly, i + 1)}

\* let coastlinePoly = null; for (const f of features) {...}
CoastlineOf(geo) ==
    IF FeaturesOf(geo).t = "array" THEN CoastlineScan(FeaturesOf(geo).v, 1) ELSE Null

\* every way intersect can answer during one build of geo
Answers(geo) ==
    IF FeaturesOf(geo).t = "array"
    THEN AnswerSeqs(FeaturesOf(geo).v, CoastlineOf(geo), 1)
    ELSE {<<>>}

\* part_000 geoJsonToVillages(doc)
BuildClipped ==
    /\ pc = "start"
    /\ \E answers \in Answers(doc) :
          /\ res' = geoJsonToVillagesClipped(doc, answers)
          /\ turf' = answers
    /\ builder' = "clip"
    /\ coast' = CoastlineOf(doc)
    /\ pc' = "done"
    /\ UNCHANGED <<doc, query, found, snapshot, call, ret>>
    /\ UNCHANGED page

\* findVillageForPoint(villages, lat, lng) on the villages built
Locate ==
    /\ pc = "done"
    /\ res.ok
    /\ \E p \in QueryPoints :
          /\ query' = [t |-> "point", lat |-> p[1], lng |-> p[2]]
          /\ found' = findVillageForPoint(res.v, p[1], p[2])
    /\ UNCHANGED <<doc, pc, builder, coast, turf, res, snapshot, call, ret>>
    /\ UNCHANGED page

\* The builder that ran is called again on the same document. intersect is
\* library code without state: called with the same polygons it answers as in
\* the first run.
Rebuild ==
    /\ pc = "done"
    /\ pc' = "rerun"
    /\ \/ builder = "plain" /\ res' = geoJsonToVillages(doc)
       \/ builder = "clip" /\ res' = geoJsonToVillagesClipped(doc, turf)
    /\ UNCHANGED <<doc, builder, coast, turf, query, found, snapshot, call, ret>>
    /\ UNCHANGED page

\* The caller keeps the list it was given, with the query it made and the
\* answer it got, and another document is loaded: the builder will run on it
Reload ==
    /\ pc = "done"
    /\ res.ok
    /\ query.t = "point"
    /\ snapshot = NoSnapshot
    /\ snapshot' = [t |-> "held", villages |-> res.v,
                    lat |-> query.lat, lng |-> query.lng, found |-> found]
    /\ doc' \in ReloadDocuments
    /\ pc' = "start"
    /\ UNCHANGED <<builder, coast, turf, res, query, found, call, ret>>
    /\ UNCHANGED page

\* findVillageForPoint on the list the caller kept, at the point asked before
LocateSnapshot ==
    /\ snapshot.t = "held"
    /\ call' = [fn |-> "findVillageForPoint",
                arg |-> <<snapshot.villages, snapshot.lat, snapshot.lng>>]
    /\ ret' = findVillageForPoint(snapshot.villages, snapshot.lat, snapshot.lng)
    /\ UNCHANGED <<doc, pc, builder, coast, turf, res, query, found, snapshot>>
    /\ UNCHANGED page

\* findVillageForPoint(villages, lat, lng) at a point of the grid
LocateOnGrid ==
    /\ pc = "done"
    /\ res.ok
    /\ \E p \in GridPoints :
          /\ query' = [t |-> "point", lat |-> p[1], lng |-> p[2]]
          /\ found' = findVillageForPoint(res.v, p[1], p[2])
    /\ UNCHANGED <<doc, pc, builder, coast, turf, res, snapshot, call, ret>>
    /\ UNCHANGED page

\* ensureClosed(ring) on the ring of the pending call
Close ==
    /\ call.fn = "ensureClosed"
    /\ call.pass = 1
    /\ ret = Null
    /\ ret' = [t |-> "ring", v |-> ensureClosed(call.arg)]
    /\ UNCHANGED <<doc, pc, builder, coast, turf, res, query, found, snapshot, call>>
    /\ UNCHANGED page

\* ensureClosed applied to the ring that ensureClosed returned
CloseResult ==
    /\ call.fn = "ensureClosed"
    /\ call.pass = 1
    /\ ret.t = "ring"
    /\ call' = [fn |-> "ensureClosed", pass |-> 2, arg |-> ret.v]
    /\ ret' = [t |-> "ring", v |-> ensureClosed(ret.v)]
    /\ UNCHANGED <<doc, pc, builder, coast, turf, res, query, found, snapshot>>
    /\ UNCHANGED page

\* every way intersect can answer with pieces during one build of geo
RECURSIVE PieceAnswerSeqs(_, _, _)
PieceAnswerSeqs(fs, coastlinePoly, i) ==
    IF i > Len(fs) THEN {<<>>}
    ELSE {<<a>> \o rest :
            a \in (IF IntersectCalled(fs[i], coastlinePoly) THEN PieceAnswers ELSE {TurfNone}),
            rest \in PieceAnswerSeqs(fs, coastlinePoly, i + 1)}

\* part_000 geoJsonToVillages(doc), when the intersections are not empty
BuildClippedPieces ==
    /\ pc = "start"
    /\ \E answers \in PieceAnswerSeqs(FeaturesOf(doc).v, CoastlineOf(doc), 1) :
          /\ res' = geoJsonToVillagesClipped(doc, answers)
          /\ turf' = answers
    /\ builder' = "clip"
    /\ coast' = CoastlineOf(doc)
    /\ pc' = "done"
    /\ UNCHANGED <<doc, query, found, snapshot, call, ret>>
    /\ UNCHANGED page

NextPieces == BuildClippedPieces \/ Locate

\* bboxArea(bb) on the box of the pending call
CallBboxArea ==
    /\ call.fn = "bboxArea"
    /\ ret = Null
    /\ ret' = Num(bboxArea(call.arg[1]))
    /\ UNCHANGED <<doc, pc, builder, coast, turf, res, query, found, snapshot, call>>
    /\ UNCHANGED page

\* bboxIntersectionArea(a, b) on the boxes of the pending call
CallBboxIntersectionArea ==
    /\ call.fn = "bboxIntersectionArea"
    /\ ret = Null
    /\ ret' = Num(bboxIntersectionArea(call.arg[1], call.arg[2]))
    /\ UNCHANGED <<doc, pc, builder, coast, turf, res, query, found, snapshot, call>>
    /\ UNCHANGED page

NextBox == CallBboxArea \/ CallBboxIntersectionArea

\* pointInRing(lat, lng, ring) on the ring of the pending call
CallPointInRing ==
    /\ call.fn = "pointInRing"
    /\ ~call.closed
    /\ ret = Null
    /\ ret' = [t |-> "boolean", v |-> pointInRing(call.arg[1], call.arg[2], call.arg[3])]
    /\ UNCHANGED <<doc, pc, builder, coast, turf, res, query, found, snapshot, call>>
    /\ UNCHANGED page

\* pointInRing at the same point on what ensureClosed makes of that ring
CallPointInRingClosed ==
    /\ call.fn = "pointInRing"
    /\ ~call.closed
    /\ ret.t = "boolean"
    /\ call' = [fn |-> "pointInRing", closed |-> TRUE,
                arg |-> <<call.arg[1], call.arg[2], ensureClosed(call.arg[3])>>]
    /\ ret' = [t |-> "boolean",
               v |-> pointInRing(call.arg[1], call.arg[2], ensureClosed(call.arg[3]))]
    /\ UNCHANGED <<doc, pc, builder, coast, turf, res, query, found, snapshot>>
    /\ UNCHANGED page

NextContain == CallPointInRing \/ CallPointInRingClosed

-----------------------------------------------------------------------------
(* The page: useVillages, useUserLocation, HomePage *)

located == <<userLoc, userAcc>>
deferral == <<deferredVillageId, deferTimeoutRef, timers, timerSeq>>
flight == <<camera, flyId, frames, hasInteracted, fitDeps>>
overlay == <<dataLayer, loadedVillagesRef, layerDeps, featDeps>>

\* useVillages: the fetch settles; .then stores what geoJsonToVillages returns,
\* .catch stores [] when it throws
VillagesLoaded ==
    /\ pc = "start"
    /\ res' = geoJsonToVillages(doc)
    /\ villages' = IF res'.ok THEN res'.v ELSE <<>>
    /\ builder' = "plain"
    /\ coast' = Null
    /\ turf' = <<>>
    /\ pc' = "done"
    /\ UNCHANGED <<doc, query, found, snapshot, call, ret>>
    /\ UNCHANGED <<selectedVillageId, selected, popupInfo, filters, positions, alerted,
                   showVillages, map>>
    /\ UNCHANGED <<located, deferral, flight, overlay>>

\* locateMe(): without navigator.geolocation it alerts; otherwise it hands
\* getCurrentPosition a success callback that closes over the villages of the
\* render that made this locateMe
LocateMe ==
    /\ \E supported \in BOOLEAN :
          IF ~supported
          THEN /\ alerted' = [t |-> "string", v |-> "Geolocation not supported."]
               /\ UNCHANGED positions
          ELSE /\ Len(positions) < MaxRequests
               /\ positions' = Append(positions, [villages |-> villages])
               /\ UNCHANGED alerted
    /\ UNCHANGED built
    /\ UNCHANGED <<villages, selectedVillageId, selected, popupInfo, filters,
                   showVillages, map>>
    /\ UNCHANGED <<located, deferral, flight, overlay>>

Without(xs, i) == [k \in 1..(Len(xs) - 1) |-> IF k < i THEN xs[k] ELSE xs[k + 1]]

\* const acc = typeof pos.coords.accuracy === "number" ? pos.coords.accuracy : null
AccuracyOf(accuracy) == IF accuracy.t = "number" THEN accuracy ELSE Null

\* Variant: the accuracy of the fix is not looked at
TrustedAnyAccuracy(list, acc) == Len(list) > 0

\* villages.length && (acc === null || acc <= 1500)
Trusted(list, acc) == Len(list) > 0 /\ (acc = Null \/ acc.v <= 1500)

\* the success callback of request i is called with a position
PositionFound(i, lat, lng, accuracy) ==
    LET acc == AccuracyOf(accuracy)
        list == positions[i].villages
        v == findVillageForPoint(list, lat, lng)
    IN /\ positions' = Without(positions, i)
       /\ userLoc' = [lat |-> lat, lng |-> lng]
       /\ userAcc' = acc
       /\ IF Trusted(list, acc) /\ v # Null
          THEN \* onVillageFound(v.id), the callback HomePage passes
               /\ selectedVillageId' = Str(v.v.id)
               /\ selected' = Null
          ELSE UNCHANGED <<selectedVillageId, selected>>
       /\ UNCHANGED built
       /\ UNCHANGED <<villages, popupInfo, filters, alerted, showVillages, map>>
       /\ UNCHANGED <<deferral, flight, overlay>>

Fix ==
    \E i \in 1..Len(positions), p \in FixPoints, accuracy \in FixAccuracies :
        PositionFound(i, p[1], p[2], accuracy)

\* the error callback of a request is called
PositionError ==
    /\ \E i \in 1..Len(positions) : positions' = Without(positions, i)
    /\ alerted' = [t |-> "string", v |-> "Could not access location."]
    /\ UNCHANGED built
    /\ UNCHANGED <<villages, selectedVillageId, selected, popupInfo, filters,
                   showVillages, map>>
    /\ UNCHANGED <<located, deferral, flight, overlay>>

\* clearTimeout(id): the timer of that id, if still pending, will not fire
clearTimeout(pending, id) == {t \in pending : Num(t.id) # id}

\* Variant: the pending timer is not cleared before the next one is set
selectVillageNoClear(id, popup) ==
    /\ timerSeq < MaxTimers
    /\ selectedVillageId' = id
    /\ selected' = Null
    /\ popupInfo' = popup
    /\ timers' = timers \cup {[id |-> timerSeq + 1, arg |-> id]}
    /\ timerSeq' = timerSeq + 1
    /\ deferTimeoutRef' = Num(timerSeq + 1)
    /\ UNCHANGED built
    /\ UNCHANGED <<villages, filters, deferredVillageId, positions, alerted,
                   showVillages, map>>
    /\ UNCHANGED <<located, flight, overlay>>

\* selectVillage(id); popup is what the batch of state updates of the event
\* leaves in popupInfo (null, unless the caller sets it after selectVillage)
selectVillage(id, popup) ==
    /\ timerSeq < MaxTimers
    /\ selectedVillageId' = id
    /\ selected' = Null
    /\ popupInfo' = popup
    /\ timers' = clearTimeout(timers, deferTimeoutRef)
                    \cup {[id |-> timerSeq + 1, arg |-> id]}
    /\ timerSeq' = timerSeq + 1
    /\ deferTimeoutRef' = Num(timerSeq + 1)
    /\ UNCHANGED built
    /\ UNCHANGED <<villages, filters, deferredVillageId, positions, alerted,
                   showVillages, map>>
    /\ UNCHANGED <<located, flight, overlay>>

\* a village is picked in the dropdown of the village browser
OnSelectVillage == \E k \in 1..Len(villages) : selectVillage(Str(villages[k].id), Null)

\* "All villages": resetToAll
ResetToAll == selectVillage(Null, Null)

\* a click on the boundary of a village on the map; the popup is placed at the
\* centroid of the village, a position this model leaves out
OnVillageClick ==
    \E k \in 1..Len(villages) :
        LET villageId == villages[k].id
            first == CHOOSE j \in 1..Len(villages) :
                        /\ villages[j].id = villageId
                        /\ \A m \in 1..(j - 1) : villages[m].id # villageId
        IN selectVillage(Str(villageId), [kind |-> "VILLAGE", village |-> villages[first]])

\* the timer set by selectVillage fires: setDeferredVillageId(id)
TimerFires ==
    /\ \E t \in timers :
          /\ timers' = timers \ {t}
          /\ deferredVillageId' = t.arg
    /\ UNCHANGED built
    /\ UNCHANGED <<villages, selectedVillageId, selected, popupInfo, filters,
                   deferTimeoutRef, timerSeq, positions, alerted, showVillages, map>>
    /\ UNCHANGED <<located, flight, overlay>>

\* reset()
Reset ==
    /\ selectedVillageId' = Null
    /\ filters' = DefaultFilters
    /\ selected' = Null
    /\ popupInfo' = Null
    /\ timers' = clearTimeout(timers, deferTimeoutRef)
    /\ deferredVillageId' = Null
    /\ UNCHANGED built
    /\ UNCHANGED <<villages, deferTimeoutRef, timerSeq, positions, alerted,
                   showVillages, map>>
    /\ UNCHANGED <<located, flight, overlay>>

-----------------------------------------------------------------------------
(* The map: VillageOverlay, FitVillageBounds, smoothFlyTo *)

\* the villages array as a dependency of an effect: React compares references,
\* and the array the load stores is another one than the initial []
VillagesRef == <<pc, villages>>

\* the view the map starts with when it has its defaultCenter and defaultZoom
DefaultCamera == [by |-> 0, to |-> [t |-> "default"], step |-> 0, landed |-> TRUE]

\* useMap() gives the map instance from now on; whether the instance already
\* has a centre and a zoom is up to the maps library
MapAvailable ==
    /\ ~map
    /\ map' = TRUE
    /\ camera' \in {NoCamera, DefaultCamera}
    /\ UNCHANGED built
    /\ UNCHANGED <<villages, selectedVillageId, selected, popupInfo, filters, positions,
                   alerted, showVillages, flyId, frames, hasInteracted, fitDeps>>
    /\ UNCHANGED <<located, deferral, overlay>>

\* toggleShowVillages()
ToggleVillages ==
    /\ showVillages' = ~showVillages
    /\ UNCHANGED built
    /\ UNCHANGED <<villages, selectedVillageId, selected, popupInfo, filters, positions,
                   alerted, map>>
    /\ UNCHANGED <<located, deferral, flight, overlay>>

\* new google.maps.Data({ map }) holding the given features
DataLayer(features) == [t |-> "layer", features |-> features]

\* VillageOverlay, first effect ([map]): creates the data layer once
LayerEffect ==
    /\ layerDeps # map
    /\ layerDeps' = map
    /\ dataLayer' = IF map /\ dataLayer = Null THEN DataLayer(<<>>) ELSE dataLayer
    /\ UNCHANGED built
    /\ UNCHANGED <<villages, selectedVillageId, selected, popupInfo, filters, positions,
                   alerted, showVillages, map, loadedVillagesRef, featDeps>>
    /\ UNCHANGED <<located, deferral, flight>>

\* ids.join(",")
RECURSIVE Join(_)
Join(ids) ==
    IF Len(ids) = 0 THEN <<>>
    ELSE IF Len(ids) = 1 THEN ids[1]
    ELSE ids[1] \o <<",">> \o Join(Tail(ids))

\* showVillages ? villages.map((v) => v.id).join(",") : ""
Fingerprint == IF showVillages THEN Join([k \in 1..Len(villages) |-> villages[k].id]) ELSE <<>>

\* the feature layer.add is given for village v
FeatureOf(v) ==
    [id |-> v.id, name |-> v.name,
     path |-> [k \in 1..Len(v.polygon) |-> [lat |-> v.polygon[k][2], lng |-> v.polygon[k][1]]]]

\* VillageOverlay, second effect ([villages, showVillages]): refills the layer
\* when the fingerprint of what it should show has changed
FeaturesEffect ==
    /\ layerDeps = map
    /\ featDeps # <<VillagesRef, showVillages>>
    /\ featDeps' = <<VillagesRef, showVillages>>
    /\ IF dataLayer = Null \/ Fingerprint = loadedVillagesRef
       THEN UNCHANGED <<dataLayer, loadedVillagesRef>>
       ELSE /\ loadedVillagesRef' = Fingerprint
            /\ dataLayer' = IF showVillages
                            THEN DataLayer([k \in 1..Len(villages) |-> FeatureOf(villages[k])])
                            ELSE DataLayer(<<>>)
    /\ UNCHANGED built
    /\ UNCHANGED <<villages, selectedVillageId, selected, popupInfo, filters, positions,
                   alerted, showVillages, map, layerDeps>>
    /\ UNCHANGED <<located, deferral, flight>>

\* the village of the selected id: villages.find((x) => x.id === selectedVillageId)
RECURSIVE FindVillage(_, _, _)
FindVillage(list, id, k) ==
    IF k > Len(list) THEN Undef
    ELSE IF Str(list[k].id) = id THEN [t |-> "village", v |-> list[k]]
    ELSE FindVillage(list, id, k + 1)

\* smoothFlyTo(map, target, targetZoom): takes the next fly id; a map without
\* centre or zoom is moved at once; otherwise the first frame runs within the
\* call, at t = 0, and asks for the next one
smoothFlyTo(target) ==
    /\ flyId < MaxFlights
    /\ flyId' = flyId + 1
    /\ IF camera.to = Undef
       THEN /\ camera' = [by |-> flyId + 1, to |-> target, step |-> 0, landed |-> TRUE]
            /\ UNCHANGED frames
       ELSE /\ camera' = [by |-> flyId + 1, to |-> target, step |-> 0, landed |-> FALSE]
            /\ frames' = frames \cup {[id |-> flyId + 1, to |-> target, step |-> 1]}

\* FitVillageBounds, layout effect ([map, selectedVillageId, villages])
FitEffect ==
    /\ fitDeps # <<map, selectedVillageId, VillagesRef>>
    /\ fitDeps' = <<map, selectedVillageId, VillagesRef>>
    /\ IF ~map
       THEN UNCHANGED <<camera, flyId, frames, hasInteracted>>
       ELSE IF selectedVillageId = Null
       THEN /\ UNCHANGED hasInteracted
            /\ IF ~hasInteracted
               THEN UNCHANGED <<camera, flyId, frames>>
               ELSE smoothFlyTo([t |-> "island"])
       ELSE /\ hasInteracted' = TRUE
            /\ LET v == FindVillage(villages, selectedVillageId, 1)
               IN IF v = Undef
                  THEN UNCHANGED <<camera, flyId, frames>>
                  ELSE smoothFlyTo(Str(v.v.id))
    /\ UNCHANGED built
    /\ UNCHANGED <<villages, selectedVillageId, selected, popupInfo, filters, positions,
                   alerted, showVillages, map>>
    /\ UNCHANGED <<located, deferral, overlay>>

\* Variant: a frame does not look at the fly id before it moves the camera
frameUnchecked(f) ==
    /\ f \in frames
    /\ \/ /\ camera' = [by |-> f.id, to |-> f.to, step |-> f.step, landed |-> TRUE]
          /\ frames' = frames \ {f}
       \/ /\ f.step <= MaxFrames
          /\ camera' = [by |-> f.id, to |-> f.to, step |-> f.step, landed |-> FALSE]
          /\ frames' = (frames \ {f}) \cup {[f EXCEPT !.step = f.step + 1]}
    /\ UNCHANGED built
    /\ UNCHANGED <<villages, selectedVillageId, selected, popupInfo, filters, positions,
                   alerted, showVillages, map, flyId, hasInteracted, fitDeps>>
    /\ UNCHANGED <<located, deferral, overlay>>

\* frame(now), called back by requestAnimationFrame: returns when a later
\* smoothFlyTo call has taken the fly id; otherwise moves the camera and, while
\* t < 1, asks for the next frame. Whether t has reached 1 depends on the clock.
frame(f) ==
    /\ f \in frames
    /\ IF f.id # flyId
       THEN /\ frames' = frames \ {f}
            /\ UNCHANGED camera
       ELSE \/ /\ camera' = [by |-> f.id, to |-> f.to, step |-> f.step, landed |-> TRUE]
               /\ frames' = frames \ {f}
            \/ /\ f.step <= MaxFrames
               /\ camera' = [by |-> f.id, to |-> f.to, step |-> f.step, landed |-> FALSE]
               /\ frames' = (frames \ {f}) \cup {[f EXCEPT !.step = f.step + 1]}
    /\ UNCHANGED built
    /\ UNCHANGED <<villages, selectedVillageId, selected, popupInfo, filters, positions,
                   alerted, showVillages, map, flyId, hasInteracted, fitDeps>>
    /\ UNCHANGED <<located, deferral, overlay>>

AnimationFrame == \E f \in frames : frame(f)

NextFly ==
    \/ VillagesLoaded
    \/ MapAvailable
    \/ OnSelectVillage
    \/ ResetToAll
    \/ OnVillageClick
    \/ TimerFires
    \/ FitEffect
    \/ AnimationFrame

NextOverlay ==
    \/ VillagesLoaded
    \/ MapAvailable
    \/ ToggleVillages
    \/ LayerEffect
    \/ FeaturesEffect

NextLocate == VillagesLoaded \/ LocateMe \/ Fix \/ PositionError

NextPage ==
    \/ VillagesLoaded
    \/ LocateMe
    \/ Fix
    \/ PositionError
    \/ OnSelectVillage
    \/ ResetToAll
    \/ OnVillageClick
    \/ TimerFires
    \/ Reset

Next == Build \/ BuildClipped \/ Locate

NextClose == Close \/ CloseResult

NextRing == Build \/ BuildClipped \/ LocateOnGrid

NextReload == Build \/ BuildClipped \/ Locate \/ Reload \/ LocateSnapshot

NextRerun == Build \/ BuildClipped \/ Rebuild \/ Locate

Spec == Init /\ [][Next]_vars

SpecCoast == InitCoast /\ [][Next]_vars

SpecSelect == InitSelect /\ [][Next]_vars

InitReload == doc \in ReloadDocuments /\ InitRest

SpecReload == InitReload /\ [][NextReload]_vars

InitNames == doc \in NameDocuments /\ InitRest

SpecNames == InitNames /\ [][Next]_vars

InitRing == doc \in RingDocuments /\ InitRest

SpecRing == InitRing /\ [][NextRing]_vars

\* no document is loaded; a ring is about to be handed to ensureClosed
InitClose ==
    /\ doc = Undef
    /\ pc = "start"
    /\ builder = "none"
    /\ coast = Null
    /\ turf = <<>>
    /\ res = Ok(<<>>)
    /\ query = NoQuery
    /\ found = Null
    /\ snapshot = NoSnapshot
    /\ call \in {[fn |-> "ensureClosed", pass |-> 1, arg |-> r] : r \in CloseRings}
    /\ ret = Null
    /\ InitPage

SpecClose == InitClose /\ [][NextClose]_vars

InitPieces == doc \in PieceDocuments /\ InitRest

SpecPieces == InitPieces /\ [][NextPieces]_vars

\* no document is loaded; boxes are about to be handed to an area function
InitBox ==
    /\ doc = Undef
    /\ pc = "start"
    /\ builder = "none"
    /\ coast = Null
    /\ turf = <<>>
    /\ res = Ok(<<>>)
    /\ query = NoQuery
    /\ found = Null
    /\ snapshot = NoSnapshot
    /\ call \in {[fn |-> "bboxArea", arg |-> <<a>>] : a \in Boxes}
                  \cup {[fn |-> "bboxIntersectionArea", arg |-> <<a, b>>] :
                            a \in Boxes, b \in Windows}
    /\ ret = Null
    /\ InitPage

SpecBox == InitBox /\ [][NextBox]_vars

\* no document is loaded; a point and a ring are about to be handed to pointInRing
InitContain ==
    /\ doc = Undef
    /\ pc = "start"
    /\ builder = "none"
    /\ coast = Null
    /\ turf = <<>>
    /\ res = Ok(<<>>)
    /\ query = NoQuery
    /\ found = Null
    /\ snapshot = NoSnapshot
    /\ call \in {[fn |-> "pointInRing", closed |-> FALSE, arg |-> <<p[1], p[2], r>>] :
                    p \in ContainPoints, r \in ContainRings}
    /\ ret = Null
    /\ InitPage

SpecContain == InitContain /\ [][NextContain]_vars

InitPageLoad == doc \in PageDocuments /\ InitRest

SpecPage == InitPageLoad /\ [][NextPage]_vars

SpecLocate == InitPageLoad /\ [][NextLocate]_vars

SpecOverlay == InitPageLoad /\ [][NextOverlay]_vars

SpecFly == InitPageLoad /\ [][NextFly]_vars

InitRerun == doc \in RerunDocuments /\ InitRest

SpecRerun == InitRerun /\ [][NextRerun]_vars

-----------------------------------------------------------------------------
(* Notions the properties are stated with *)

Done == pc = "done"

\* the features of the document, when it has a feature list
FeatureList == FeaturesOf(doc).v

RawNameOf(f) == OptGet(OptGet(f, "properties"), "name")
GeometryOf(f) == OptGet(f, "geometry")

\* bounding-box overlap with the reference window, and own bounding-box area
Overlap(ring) == bboxIntersectionArea(ringBBox(ring), GUAM_MAIN_BB)
OwnArea(ring) == bboxArea(ringBBox(ring))

\* feature f yields a village; its candidate rings; the ring selected among them
Yields(f) == FeatureVillage(f).ok /\ Truthy(FeatureVillage(f).v)
Candidates(f) == CandidateRings(GeometryOf(f)).rings.v
Selected(f) == FeatureVillage(f).v.v.polygon

RECURSIVE IndicesOutside(_, _, _)
IndicesOutside(n, D, i) ==
    IF i > n THEN <<>>
    ELSE (IF i \in D THEN <<>> ELSE <<i>>) \o IndicesOutside(n, D, i + 1)

\* the positions of the features that yield a village, in input order
Yielding ==
    IndicesOutside(Len(FeatureList),
                   {i \in 1..Len(FeatureList) : ~Yields(FeatureList[i])}, 1)

Least(S) == CHOOSE i \in S : \A m \in S : i <= m

-----------------------------------------------------------------------------
(* Fragment selection *)

\* C1: whenever a build without clipping has emitted its villages, the polygon
\* of each village is one of the candidate rings of its feature, and no
\* candidate of that feature has a larger bounding-box overlap with the
\* reference window, whatever the order of the candidates.
C1_SelectsMaxOverlap ==
    (Done /\ res.ok /\ coast = Null) =>
        LET ys == Yielding
        IN /\ Len(res.v) = Len(ys)
           /\ \A j \in 1..Len(ys) :
                 LET cands == Candidates(FeatureList[ys[j]])
                     chosen == Overlap(res.v[j].polygon)
                 IN /\ \E k \in 1..Len(cands) : res.v[j].polygon = cands[k]
                    /\ \A k \in 1..Len(cands) : chosen >= Overlap(cands[k])

\* an islet wholly inside the window comes first and loses to the large ring
\* that overlaps the window only in part
C1_Witness ==
    /\ Done /\ res.ok /\ Len(res.v) = 1
    /\ Candidates(FeatureList[1]) = <<RingIslet, RingBig>>
    /\ Overlap(RingIslet) = OwnArea(RingIslet)
    /\ Overlap(RingBig) < OwnArea(RingBig)
    /\ res.v[1].polygon = RingBig

\* C2: the polygon of each village built without clipping is the earliest
\* candidate among those of largest own bounding-box area among those of
\* largest overlap.
C2_TieBreaks ==
    (Done /\ res.ok /\ coast = Null) =>
        LET ys == Yielding
        IN Len(res.v) = Len(ys) =>
            \A j \in 1..Len(ys) :
                LET cands == Candidates(FeatureList[ys[j]])
                    overlaps == [k \in 1..Len(cands) |-> Overlap(cands[k])]
                    areas == [k \in 1..Len(cands) |-> OwnArea(cands[k])]
                IN \E k \in 1..Len(cands) :
                      /\ res.v[j].polygon = cands[k]
                      /\ \A m \in 1..Len(cands) :
                            \/ overlaps[m] < overlaps[k]
                            \/ /\ overlaps[m] = overlaps[k]
                               /\ areas[m] < areas[k]
                            \/ /\ overlaps[m] = overlaps[k]
                               /\ areas[m] = areas[k]
                               /\ m >= k

\* A (overlap 10, area 10) before B (overlap 10, area 50): B is selected
C2_Witness ==
    /\ Done /\ res.ok /\ Len(res.v) = 1
    /\ Candidates(FeatureList[1]) = <<RingTieSmall, RingTieLarge>>
    /\ Overlap(RingTieSmall) = Overlap(RingTieLarge)
    /\ OwnArea(RingTieSmall) < OwnArea(RingTieLarge)
    /\ res.v[1].polygon = RingTieLarge

-----------------------------------------------------------------------------
(* Point locator *)

\* C3: after every query, the answer is the first village in list order whose
\* ring contains the point by pointInRing, and null exactly when no ring does.
C3_FirstMatch ==
    (Done /\ query.t = "point") =>
        LET hits == {i \in 1..Len(res.v) :
                        pointInRing(query.lat, query.lng, res.v[i].polygon)}
        IN IF hits = {} THEN found = Null
           ELSE found = [t |-> "village", v |-> res.v[Least(hits)]]

\* two different villages contain the point and the first one is the answer
C3_Witness ==
    /\ Done /\ query.t = "point" /\ Len(res.v) >= 2
    /\ res.v[1] # res.v[2]
    /\ pointInRing(query.lat, query.lng, res.v[1].polygon)
    /\ pointInRing(query.lat, query.lng, res.v[2].polygon)
    /\ found = [t |-> "village", v |-> res.v[1]]

-----------------------------------------------------------------------------
(* Failure handling of the builder *)

\* C4: whatever the document, a finished build has returned a list of
\* villages and has not thrown.
C4_NeverThrows == Done => res.ok

\* the document is null or undefined, has no features field, or its features
\* field is not a list
NoFeatureList == Nullish(doc) \/ Get(doc, "features").t # "array"

\* C6: a build of a document without a feature list returns the empty list.
C6_NoListYieldsEmpty == (Done /\ NoFeatureList) => res = Ok(<<>>)

\* the geometry type of f is neither Polygon nor MultiPolygon
OtherType(f) == Get(GeometryOf(f), "type") \notin {Str(TypePolygon), Str(TypeMultiPolygon)}

\* f has a Polygon or MultiPolygon geometry without any non-empty outer ring
NoOuterRing(f) ==
    /\ ~OtherType(f)
    /\ CandidateRings(GeometryOf(f)).rings.ok
    /\ Candidates(f) = <<>>

\* an invalid feature: no name, no geometry, another geometry type, or no
\* non-empty outer ring
Invalid(f) ==
    \/ ~Truthy(RawNameOf(f))
    \/ ~Truthy(GeometryOf(f))
    \/ OtherType(f)
    \/ NoOuterRing(f)

\* the document without the features at the positions D
DocWithout(D) ==
    LET keep == IndicesOutside(Len(FeatureList), D, 1)
    IN FeatureCollection([j \in 1..Len(keep) |-> FeatureList[keep[j]]])

\* answers of intersect for DocWithout(D) that repeat the answers of this build
\* for the features it clipped
SameAnswers(D, answers) ==
    LET keep == IndicesOutside(Len(FeatureList), D, 1)
    IN \A j \in 1..Len(keep) : turf[keep[j]].kind # "none" => answers[j] = turf[keep[j]]

\* the outcomes of the builder that ran, run again without the features at D
Rebuilds(D) ==
    IF builder = "plain" THEN {geoJsonToVillages(DocWithout(D))}
    ELSE {geoJsonToVillagesClipped(DocWithout(D), answers) :
             answers \in {a \in Answers(DocWithout(D)) : SameAnswers(D, a)}}

InvalidPositions == {i \in 1..Len(FeatureList) : Invalid(FeatureList[i])}

CoastlineLabel(f) ==
    RawNameOf(f) = Str(NameGuam) /\ OptGet(GeometryOf(f), "type") = Str(TypePolygon)

\* an invalid feature that carries no name, no geometry or a string name, and
\* is not a "Guam" Polygon feature
Droppable(f) ==
    /\ Invalid(f)
    /\ ~Truthy(RawNameOf(f)) \/ ~Truthy(GeometryOf(f)) \/ RawNameOf(f).t = "string"
    /\ ~CoastlineLabel(f)

DroppablePositions == {i \in 1..Len(FeatureList) : Droppable(FeatureList[i])}

-----------------------------------------------------------------------------
(* Coastline clipping *)

\* C7: in a build with a coastline reference, a village whose intersection
\* with the coastline is empty, or for which polygon construction or the
\* intersection throws, keeps the selected ring, vertex for vertex; the build
\* throws only if a feature throws outside the clipping.
C7_ClipFallback ==
    (Done /\ builder = "clip" /\ Truthy(coast)) =>
        /\ res.ok <=> \A i \in 1..Len(FeatureList) : FeatureVillage(FeatureList[i]).ok
        /\ res.ok =>
              LET ys == Yielding
              IN /\ Len(res.v) = Len(ys)
                 /\ \A j \in 1..Len(ys) :
                       turf[ys[j]].kind \in {"null", "throw", "none"}
                           => res.v[j].polygon = Selected(FeatureList[ys[j]])

\* an open ring whose intersection is empty is returned open
C7_Witness ==
    /\ Done /\ builder = "clip" /\ Truthy(coast) /\ res.ok /\ Len(res.v) = Len(Yielding)
    /\ \E j \in 1..Len(Yielding) :
          /\ turf[Yielding[j]].kind = "null"
          /\ res.v[j].polygon = RingLarge
          /\ ensureClosed(RingLarge) # RingLarge

\* the positions of the "Guam" Polygon features
LabelPositions == {i \in 1..Len(FeatureList) : CoastlineLabel(FeatureList[i])}

\* the outer ring of f, closed
ClosedOuterRing(f) ==
    ensureClosed(toRingGeoJson(OptIndex(Get(GeometryOf(f), "coordinates"), 0)).v)

\* the outer ring of f is not empty and a polygon can be constructed from it
UsableCoastline(f) ==
    /\ Truthy(OptGet(OptIndex(Get(GeometryOf(f), "coordinates"), 0), "length"))
    /\ toRingGeoJson(OptIndex(Get(GeometryOf(f), "coordinates"), 0)).ok
    /\ Len(ClosedOuterRing(f)) >= 4

\* C8: the coastline reference of a clipping build is that of the first "Guam"
\* Polygon feature; when that feature is unusable there is no reference,
\* intersect is never called and every village keeps its selected ring, even
\* if a later feature qualifies.
C8_CoastlineOnce ==
    (Done /\ builder = "clip" /\ FeaturesOf(doc).t = "array") =>
        IF LabelPositions = {} THEN coast = Null
        ELSE IF UsableCoastline(FeatureList[Least(LabelPositions)])
        THEN coast = [t |-> "polygon",
                      v |-> <<ClosedOuterRing(FeatureList[Least(LabelPositions)])>>]
        ELSE /\ coast = Null
             /\ \A i \in 1..Len(FeatureList) : turf[i].kind = "none"
             /\ res.ok =>
                   /\ Len(res.v) = Len(Yielding)
                   /\ \A j \in 1..Len(Yielding) :
                         res.v[j].polygon = Selected(FeatureList[Yielding[j]])

\* an unusable "Guam" feature precedes a usable one, and the village is not clipped
C8_Witness ==
    /\ Done /\ builder = "clip" /\ res.ok
    /\ FeatureList \in {<<FGuamShort, FGuam, FTamuning>>, <<FGuamEmpty, FGuam, FTamuning>>}
    /\ coast = Null
    /\ Len(res.v) = 1 /\ res.v[1].polygon = RingLarge

-----------------------------------------------------------------------------
(* The end-to-end scenario *)

IdTamuning == <<"t", "a", "m", "u", "n", "i", "n", "g">>

\* a "Guam" Polygon, a "United States" feature and the "Tamuning" MultiPolygon
\* of a tiny far ring and a large ring near the window
Scenario ==
    /\ FeaturesOf(doc).t = "array"
    /\ Len(FeatureList) = 3
    /\ {FeatureList[i] : i \in 1..3} = {FGuam, FUnitedStates, FTamuning}

\* C9 as stated: the build of the scenario returns the single village
\* "tamuning", named "Tamuning-Tumon-Harmon", with the large ring as polygon.
C9_ScenarioLargeRing ==
    (Done /\ Scenario) =>
        res = Ok(<<[id |-> IdTamuning, name |-> NameTamuningTumonHarmon,
                    polygon |-> RingLarge]>>)

\* what intersect answered for the Tamuning feature
TamuningAnswer == turf[CHOOSE i \in 1..3 : FeatureList[i] = FTamuning]

\* C9, amended: the build of the scenario returns the single village
\* "tamuning", named "Tamuning-Tumon-Harmon"; its polygon is the large ring
\* in the builder without clipping, and in the clipping builder it is the
\* large ring clipped to the "Guam" feature: the large ring when the
\* intersection is empty or throws, else the outer ring of the intersection,
\* or of its piece of largest overlap.
C9_ScenarioClipped ==
    (Done /\ Scenario) =>
        /\ res.ok /\ Len(res.v) = 1
        /\ res.v[1].id = IdTamuning
        /\ res.v[1].name = NameTamuningTumonHarmon
        /\ builder = "plain" => res.v[1].polygon = RingLarge
        /\ builder = "clip" =>
              /\ TamuningAnswer.kind \in {"null", "throw"} => res.v[1].polygon = RingLarge
              /\ TamuningAnswer.kind = "Polygon"
                    => res.v[1].polygon = TamuningAnswer.coordinates[1]
              /\ TamuningAnswer.kind = "MultiPolygon" =>
                    /\ \E m \in 1..Len(TamuningAnswer.coordinates) :
                          res.v[1].polygon = TamuningAnswer.coordinates[m][1]
                    /\ \A m \in 1..Len(TamuningAnswer.coordinates) :
                          Overlap(res.v[1].polygon) >= Overlap(TamuningAnswer.coordinates[m][1])

\* the scenario built with clipping: the polygon is the clipped ring
C9_Witness ==
    /\ Done /\ Scenario /\ builder = "clip"
    /\ TamuningAnswer.kind = "Polygon"
    /\ res.ok /\ Len(res.v) = 1
    /\ res.v[1].id = IdTamuning
    /\ res.v[1].polygon = ClipA /\ ClipA # RingLarge

-----------------------------------------------------------------------------
(* Output order *)

\* C10: a build that returned emitted exactly one village per feature that
\* yields one, in the order of the features, with the id and name of that
\* feature (and its selected ring when nothing is clipped), also when two
\* features have the same id.
C10_OnePerFeatureInOrder ==
    (Done /\ res.ok) =>
        LET ys == Yielding
        IN /\ Len(res.v) = Len(ys)
           /\ \A j \in 1..Len(ys) :
                 LET village == FeatureVillage(FeatureList[ys[j]]).v.v
                 IN /\ res.v[j].id = village.id
                    /\ res.v[j].name = village.name
                    /\ coast = Null => res.v[j].polygon = village.polygon

\* two features of the same id, separated by a dropped one, both appear in order
C10_Witness ==
    /\ Done /\ res.ok
    /\ FeatureList = <<FYona, FNoGeometry, FYonaMunicipality>>
    /\ Len(res.v) = 2
    /\ res.v[1].id = res.v[2].id
    /\ res.v[1].polygon = RingBig /\ res.v[2].polygon = RingIslet

-----------------------------------------------------------------------------
(* Determinism and purity *)

-----------------------------------------------------------------------------
(* Names and ids *)

\* the characters of w between its first and its last character that is not a
\* space
Unpadded(w) ==
    LET idx == {i \in 1..Len(w) : w[i] # " "}
    IN IF idx = {} THEN <<>>
       ELSE SubSeq(w, Least(idx), CHOOSE i \in idx : \A m \in idx : m <= i)

\* the display name the corrections table gives to a stripped and trimmed name
Corrected(t) ==
    IF t = NameAganaHeights THEN NameAganaHeightsFixed
    ELSE IF t = NameAsan THEN NameAsanMaina
    ELSE IF t = NameTamuning THEN NameTamuningTumonHarmon
    ELSE t

\* the raw names of the two features of a document of names
FirstName == RawNameOf(FeatureList[1]).v
SecondName == RawNameOf(FeatureList[2]).v

\* C13: the display name of a village is its raw name without the word
\* Municipality and without the spaces around it, replaced by the table's
\* entry when it is exactly one of the three keys and left as it is
\* for every other value; this holds for the raw name and for the raw name
\* followed by " Municipality".
C13_DisplayName ==
    (Done /\ res.ok) =>
        /\ Len(res.v) = 2
        /\ res.v[1].name = Corrected(Unpadded(FirstName))
        /\ res.v[2].name = Corrected(Unpadded(FirstName))

\* C14: a raw name and the same name followed by " Municipality", the word
\* in any letter case, get the same id.
C14_SuffixSameId ==
    (Done /\ res.ok) => res.v[1].id = res.v[2].id

\* "Yona" and "Yona MUNICIPALITY" both got the id "yona"
C14_Witness ==
    /\ Done /\ res.ok
    /\ FirstName = NameYona
    /\ SecondName = NameYona \o <<" ">> \o MunicipalityCased(1..12)
    /\ res.v[1].id = <<"y", "o", "n", "a">>
    /\ res.v[2].id = <<"y", "o", "n", "a">>

\* C15: no id holds a straight apostrophe (U+0027) or a curly apostrophe
\* (U+2019).
C15_NoApostropheInId ==
    (Done /\ res.ok) =>
        \A k \in 1..Len(res.v) : \A j \in 1..Len(res.v[k].id) :
            res.v[k].id[j] \notin {"'", "rsquo"}

HandledAccents ==
    {"a_ring", "a_acute", "a_grave", "a_circ", "a_uml",
     "e_acute", "e_grave", "e_circ", "e_uml", "i_acute", "i_grave", "i_circ", "i_uml",
     "o_acute", "o_grave", "o_circ", "o_uml", "u_acute", "u_grave", "u_circ", "u_uml"}

\* C16: no id holds one of the handled accented letters, whatever the letter
\* case of the raw name.
C16_NoAccentInId ==
    (Done /\ res.ok) =>
        \A k \in 1..Len(res.v) : \A j \in 1..Len(res.v[k].id) :
            res.v[k].id[j] \notin HandledAccents

-----------------------------------------------------------------------------
(* Labels and ring size *)

\* the positions of the features named "Guam" or "United States"
Labelled ==
    {i \in 1..Len(FeatureList) :
        RawNameOf(FeatureList[i]) \in {Str(NameGuam), Str(NameUnitedStates)}}

IdGuam == <<"g", "u", "a", "m">>
IdUnitedStates == <<"u", "n", "i", "t", "e", "d", "-", "s", "t", "a", "t", "e", "s">>

\* C17: a feature named "Guam" or "United States" gives no village, with
\* either builder: no village has the id of a label, and there are no more
\* villages than features with another name.
C17_LabelsYieldNothing ==
    (Done /\ res.ok) =>
        /\ \A k \in 1..Len(res.v) : res.v[k].id \notin {IdGuam, IdUnitedStates}
        /\ Len(res.v) <= Len(FeatureList) - Cardinality(Labelled)

\* a "United States" polygon, a "Guam" polygon and a village, with the village
\* between them or after them: the build returned the village alone
C17_Witness ==
    /\ Done /\ res.ok
    /\ Len(FeatureList) = 3
    /\ FeatureList[1] = FUnitedStates
    /\ FGuam \in {FeatureList[2], FeatureList[3]}
    /\ FTamuning \in {FeatureList[2], FeatureList[3]}
    /\ Len(res.v) = 1
    /\ res.v[1].id = IdTamuning

\* C18: the ring of every village of a finished build has at least 3
\* distinct vertices.
C18_ThreeDistinctVertices ==
    (Done /\ res.ok) =>
        \A k \in 1..Len(res.v) :
            Cardinality({res.v[k].polygon[j] : j \in 1..Len(res.v[k].polygon)}) >= 3

-----------------------------------------------------------------------------
(* Ring functions *)

\* the least and the greatest of a finite set of integers
Lowest(S) == CHOOSE x \in S : \A y \in S : x <= y
Highest(S) == CHOOSE x \in S : \A y \in S : y <= x

\* C19: for a village whose ring is an axis-aligned rectangle and a point
\* that is not on the rectangle's boundary, the locator finds the village
\* exactly when the point is strictly inside the rectangle (so pointInRing
\* is true exactly then); for the square (0,0) (0,10) (10,10) (10,0), (5,5)
\* is inside and (20,20) and (-1,-1) are outside.
C19_EvenOdd ==
    (Done /\ res.ok /\ query.t = "point" /\ Len(res.v) = 1) =>
        LET ring == res.v[1].polygon
            x1 == Lowest({ring[j][1] : j \in 1..Len(ring)})
            x2 == Highest({ring[j][1] : j \in 1..Len(ring)})
            y1 == Lowest({ring[j][2] : j \in 1..Len(ring)})
            y2 == Highest({ring[j][2] : j \in 1..Len(ring)})
            onBoundary ==
                \/ query.lng \in {x1, x2} /\ y1 <= query.lat /\ query.lat <= y2
                \/ query.lat \in {y1, y2} /\ x1 <= query.lng /\ query.lng <= x2
            strictlyInside ==
                /\ x1 < query.lng /\ query.lng < x2
                /\ y1 < query.lat /\ query.lat < y2
        IN /\ ~onBoundary => ((found.t = "village") <=> strictlyInside)
           /\ ~onBoundary => (pointInRing(query.lat, query.lng, ring) <=> strictlyInside)
           /\ (ring = Rect(0, 0, 10, 10) /\ query.lat = 5 /\ query.lng = 5)
                 => found.t = "village"
           /\ (ring = Rect(0, 0, 10, 10) /\ query.lat = query.lng
                /\ query.lat \in {20, -1}) => found = Null

\* the square of the example was asked at (5,5) and the village was found
C19_Witness ==
    /\ Done /\ res.ok /\ query.t = "point" /\ Len(res.v) = 1
    /\ res.v[1].polygon = <<<<0, 0>>, <<0, 10>>, <<10, 10>>, <<10, 0>>>>
    /\ query.lat = 5 /\ query.lng = 5
    /\ found.t = "village"

\* C20: ensureClosed returns a ring of fewer than 2 vertices, or one whose
\* first and last vertices are equal, as it is, and any other ring with one
\* copy of its first vertex appended; the ring handed in is as it was after
\* the call; applied to its own result it returns that result.
C20_EnsureClosed ==
    [][/\ Close =>
            /\ call' = call
            /\ ret'.v = IF Len(call.arg) < 2 \/ call.arg[1] = call.arg[Len(call.arg)]
                        THEN call.arg
                        ELSE call.arg \o <<call.arg[1]>>
       /\ CloseResult => ret'.v = ret.v]_vars

\* an open ring of three vertices whose first and last vertices share the
\* longitude was closed to four vertices, and closing the result again gave
\* the same four vertices
C20_Witness ==
    /\ call.fn = "ensureClosed" /\ call.pass = 2
    /\ call.arg = <<<<0, 0>>, <<1, 0>>, <<0, 1>>, <<0, 0>>>>
    /\ ret.t = "ring"
    /\ ret.v = call.arg

-----------------------------------------------------------------------------
(* Clipping and its absence *)

\* C21: the polygon of a clipped village is the outer ring of the
\* intersection when intersect answers with one polygon; when it answers with
\* several pieces, it is the outer ring of the first piece among those of
\* largest own bounding-box area among those of largest bounding-box overlap
\* with the reference window.
C21_PieceSelection ==
    (Done /\ res.ok /\ Truthy(coast)) =>
        LET ys == Yielding
        IN Len(res.v) = Len(ys) /\
           \A j \in 1..Len(ys) :
              LET answer == turf[ys[j]]
                  pieces == [k \in 1..Len(answer.coordinates) |-> answer.coordinates[k][1]]
                  overlaps == [k \in 1..Len(pieces) |-> Overlap(pieces[k])]
                  areas == [k \in 1..Len(pieces) |-> OwnArea(pieces[k])]
              IN /\ answer.kind = "Polygon" => res.v[j].polygon = answer.coordinates[1]
                 /\ answer.kind = "MultiPolygon" =>
                       \E k \in 1..Len(pieces) :
                          /\ res.v[j].polygon = pieces[k]
                          /\ \A m \in 1..Len(pieces) :
                                \/ overlaps[m] < overlaps[k]
                                \/ /\ overlaps[m] = overlaps[k]
                                   /\ areas[m] < areas[k]
                                \/ /\ overlaps[m] = overlaps[k]
                                   /\ areas[m] = areas[k]
                                   /\ m >= k

\* the intersection has three pieces: a far one, then a small and a larger one
\* that tie on the overlap; the larger one is the polygon of the village
C21_Witness ==
    /\ Done /\ res.ok /\ Truthy(coast) /\ Len(res.v) = 1
    /\ \E i \in 1..Len(turf) :
          turf[i] = TurfMultiPolygon(<<Append(RingFar, RingFar[1]),
                                       Append(RingTieSmall, RingTieSmall[1]),
                                       Append(RingTieLarge, RingTieLarge[1])>>)
    /\ res.v[1].polygon = Append(RingTieLarge, RingTieLarge[1])

\* the document has no "Guam" Polygon feature, or the first one is unusable
NoUsableCoastline ==
    \/ LabelPositions = {}
    \/ ~UsableCoastline(FeatureList[Least(LabelPositions)])

\* C22: for a document without a usable coastline feature the clipping builder
\* has the outcome of the builder without clipping (the same villages, or the
\* same throw), and the polygon of each village is the ring selected among
\* the candidates of its feature, vertex for vertex.
C22_DegradesToUnclipped ==
    (Done /\ builder = "clip" /\ NoUsableCoastline) =>
        /\ res = geoJsonToVillages(doc)
        /\ res.ok =>
              LET ys == Yielding
              IN /\ Len(res.v) = Len(ys)
                 /\ \A j \in 1..Len(ys) :
                       res.v[j].polygon = Selected(FeatureList[ys[j]])

\* a "Guam" feature of two positions and a village with an open ring: the
\* clipping builder returned the open ring
C22_Witness ==
    /\ Done /\ builder = "clip" /\ res.ok
    /\ FeatureList = <<FGuamShort, FTamuning>>
    /\ ~UsableCoastline(FGuamShort)
    /\ Len(res.v) = 1
    /\ res.v[1].polygon = RingLarge
    /\ RingLarge[1] # RingLarge[Len(RingLarge)]

-----------------------------------------------------------------------------
(* Bounding-box areas *)

\* the unit cells a box covers: none when the box is flat or inverted
Cells(bb) == ((bb.minLng)..(bb.maxLng - 1)) \X ((bb.minLat)..(bb.maxLat - 1))

\* C23: bboxArea returns the number of unit cells of the box, which is never
\* negative and is 0 for the inverted box of the empty ring;
\* bboxIntersectionArea returns the number of unit cells common to the two
\* boxes, which is 0 when they are disjoint, touch, or one is inverted.
C23_Areas ==
    /\ (call.fn = "bboxArea" /\ ret.t = "number") =>
          /\ ret.v >= 0
          /\ ret.v = Cardinality(Cells(call.arg[1]))
          /\ call.arg[1] = ringBBox(<<>>) => ret.v = 0
    /\ (call.fn = "bboxIntersectionArea" /\ ret.t = "number") =>
          /\ ret.v >= 0
          /\ ret.v = Cardinality(Cells(call.arg[1]) \cap Cells(call.arg[2]))

\* a box inverted on both axes was intersected with an inverted window: the
\* extents of the common part are both negative and the area returned is 0
C23_Witness ==
    /\ call.fn = "bboxIntersectionArea" /\ ret.t = "number"
    /\ call.arg[1] = [minLat |-> 3, maxLat |-> 0, minLng |-> 3, maxLng |-> 0]
    /\ call.arg[2] = [minLat |-> 2, maxLat |-> 0, minLng |-> 3, maxLng |-> 1]
    /\ ret.v = 0

\* a village of the given outer ring, as the builders emit it
VillageOfRing(ring) == [id |-> <<"v">>, name |-> <<"V">>, polygon |-> ring]

\* C30: for every ring and every point, pointInRing answers on the ring that
\* ensureClosed returns what it answered on the ring itself, and
\* findVillageForPoint finds a village of the one ring exactly when it finds
\* the village of the other.
C30_ClosureIrrelevant ==
    [][CallPointInRingClosed =>
          /\ ret'.v = ret.v
          /\ (findVillageForPoint(<<VillageOfRing(call.arg[3])>>,
                                  call.arg[1], call.arg[2]) = Null)
             <=> (findVillageForPoint(<<VillageOfRing(call'.arg[3])>>,
                                      call.arg[1], call.arg[2]) = Null)]_vars

\* an open ring that ensureClosed lengthened, with the point inside it
C30_Witness ==
    /\ call.fn = "pointInRing"
    /\ call.closed
    /\ call.arg[3] = <<<<0, 0>>, <<4, 0>>, <<4, 4>>, <<0, 4>>, <<0, 0>>>>
    /\ call.arg[1] = 1
    /\ call.arg[2] = 2
    /\ ret.v

-----------------------------------------------------------------------------
(* The page *)

\* the fix <<lat, lng>> with the reported accuracy is delivered to request i
Delivered(i, p, accuracy) == PositionFound(i, p[1], p[2], accuracy)

\* C24 as stated: every fix delivered to the callback updates userLoc and
\* userAcc; it changes the selected village only when its reported accuracy is
\* within 1500 m, the village list is not empty and a village contains the
\* point, and then to the id of that village; a fix reported as coarser than
\* 1500 m never changes the selected village. Fails on a fix whose accuracy is
\* not a number.
C24_AccuracyGate ==
    [][\A i \in 1..Len(positions), p \in FixPoints, accuracy \in FixAccuracies :
          Delivered(i, p, accuracy) =>
             LET list == positions[i].villages
                 v == findVillageForPoint(list, p[1], p[2])
             IN /\ userLoc' = [lat |-> p[1], lng |-> p[2]]
                /\ userAcc' = AccuracyOf(accuracy)
                /\ selectedVillageId' # selectedVillageId =>
                      /\ accuracy.t = "number"
                      /\ accuracy.v <= 1500
                      /\ Len(list) > 0
                      /\ v # Null
                      /\ selectedVillageId' = Str(v.v.id)
                /\ (accuracy.t = "number" /\ accuracy.v > 1500) =>
                      selectedVillageId' = selectedVillageId]_vars

\* C24 amended: every fix delivered to the callback updates userLoc and
\* userAcc; it changes the selected village only when it reports no numeric
\* accuracy or an accuracy within 1500 m, the village list is not empty and a
\* village contains the point, and then to the id of that village; a fix
\* reported as coarser than 1500 m never changes the selected village.
C24_AccuracyGateUnlessUnreported ==
    [][\A i \in 1..Len(positions), p \in FixPoints, accuracy \in FixAccuracies :
          Delivered(i, p, accuracy) =>
             LET list == positions[i].villages
                 v == findVillageForPoint(list, p[1], p[2])
             IN /\ userLoc' = [lat |-> p[1], lng |-> p[2]]
                /\ userAcc' = AccuracyOf(accuracy)
                /\ selectedVillageId' # selectedVillageId =>
                      /\ accuracy.t # "number" \/ accuracy.v <= 1500
                      /\ Len(list) > 0
                      /\ v # Null
                      /\ selectedVillageId' = Str(v.v.id)
                /\ (accuracy.t = "number" /\ accuracy.v > 1500) =>
                      selectedVillageId' = selectedVillageId]_vars

\* Yona was selected by a fix at the threshold, then a fix in Tamuning only,
\* reported as coarser, was stored and left the selection alone
C24_Witness ==
    /\ Len(villages) = 2
    /\ timerSeq = 0
    /\ userLoc = [lat |-> 1340, lng |-> 14491]
    /\ userAcc = Num(1501)
    /\ selectedVillageId = Str(villages[1].id)

\* C29: a fix with an accuracy within 1500 m, delivered when the loaded village
\* list has a village that contains the point, selects that village, whenever
\* the locateMe call that asked for it was made.
C29_MatchesLoadedVillages ==
    [][\A i \in 1..Len(positions), p \in FixPoints, accuracy \in FixAccuracies :
          (/\ Delivered(i, p, accuracy)
           /\ accuracy.t = "number"
           /\ accuracy.v <= 1500
           /\ findVillageForPoint(villages, p[1], p[2]) # Null)
          => selectedVillageId' = Str(findVillageForPoint(villages, p[1], p[2]).v.id)]_vars

\* C25: whenever no deferred-update timer is pending, the deferred village id
\* equals the selected village id, whatever selection events came before
\* (map click, dropdown, "All villages", reset, auto-detection by locate-me).
C25_DeferredFollowsSelected ==
    timers = {} => deferredVillageId = selectedVillageId

\* C26: at most one deferred-update timer is pending, and it is the timer of
\* the latest selectVillage call, the one deferTimeoutRef names; so when the
\* deferred village id changes it takes the id of the latest selectVillage
\* call or, on reset, null; and once it is null with no timer pending it stays
\* null until the next selectVillage call.
C26_LastWriterWins ==
    /\ [](/\ Cardinality(timers) <= 1
          /\ \A t \in timers : t.id = timerSeq /\ deferTimeoutRef = Num(t.id))
    /\ [][/\ deferredVillageId' # deferredVillageId =>
                /\ timers' = {}
                /\ \/ deferredVillageId' = Null /\ selectedVillageId' = Null
                   \/ \E t \in timers : t.id = timerSeq /\ deferredVillageId' = t.arg
          /\ (timers = {} /\ deferredVillageId = Null /\ timerSeq' = timerSeq) =>
                deferredVillageId' = Null]_vars

\* a second selectVillage call came before the timer of the first had fired:
\* only the timer of the second call is pending
C26_Witness ==
    /\ Len(villages) = 2
    /\ timerSeq = 2
    /\ deferredVillageId = Null
    /\ selectedVillageId = Str(villages[2].id)
    /\ timers = {[id |-> 2, arg |-> Str(villages[2].id)]}

\* every effect of VillageOverlay has run on the current map, villages and
\* visibility
OverlayEffectsRun == layerDeps = map /\ featDeps = <<VillagesRef, showVillages>>

C27_AnimationsExclusive ==
    [][/\ camera' # camera => camera'.by = flyId'
       /\ \A f \in frames' \ frames : f.id = flyId']_vars

\* a frame of the first call is still pending while the second call has moved
\* the camera and asked for its own frame
C27_Witness ==
    /\ flyId = 2
    /\ camera.by = 2
    /\ \E f \in frames : f.id = 1
    /\ \E f \in frames : f.id = 2
====
